---- MODULE Spec2Model ----
(***************************************************************************)
(* Contour extraction core of creagen: the packed Bitmap, the arena Tree,  *)
(* the Suzuki-Abe ContourExtractor and Zhang-Suen thinning, as state       *)
(* machines over small bitmaps.                                            *)
(*                                                                         *)
(* JavaScript values are modelled as integers: a node id or a cell value   *)
(* is itself, `null` is Null and `undefined` (a read past the end of an    *)
(* array) is Undefined.                                                    *)
(***************************************************************************)
EXTENDS Integers, Sequences, FiniteSets, TLC

VARIABLES
    bm,       \* the source Bitmap: [width, height, data]
    image,    \* ContourExtractor.image: the padded Int8Array
    width,    \* ContourExtractor.width  (bitmap width + 2)
    height,   \* ContourExtractor.height (bitmap height + 2)
    opts,     \* ContourExtractor.opts.approximation
    lnbd,     \* ContourExtractor.lnbd
    nbd,      \* ContourExtractor.nbd
    ctable,   \* ContourExtractor.ctable
    tree,     \* the Tree arena
    x,        \* extractContours: column cursor
    y,        \* extractContours: row cursor
    prev,     \* extractContours: value of the previous cell
    pc,       \* position of the running operation
    call,     \* the API call just completed: [op, args, ret, pre, seq]
    thinned,  \* results of thin(): <<thin(bm), thin(thin(bm))>>
    log,      \* the Tree calls made so far: [news, adds]
    skel,     \* toSkeleton: [seen, medialEdges, n], n vertices handled
    failed,   \* the console.assert sites whose condition has evaluated to false
    twin      \* the same extraction in the other approximation mode:
              \* [tree, sync], sync telling that both extractors agree on
              \* image, nbd, ctable and the parent chosen at every border

vars == <<bm, image, width, height, opts, lnbd, nbd, ctable, tree, x, y, prev,
          pc, call, thinned, log, twin, skel, failed>>

----------------------------------------------------------------------------
(* Bounds of the model *)

\* exhaustive family: every bitmap of at most MaxCells cells and at most
\* MaxSpan cells a side
MaxCells == 9
MaxSpan == 3
\* the filled-rectangle family lives in a grid of MaxGrid x MaxGrid cells
MaxGrid == 5
\* the rectangle-with-hole family lives in a grid of MaxHoleGrid x MaxHoleGrid cells
MaxHoleGrid == 5
\* the two-block family lives in a BlockGrid x BlockGrid grid
BlockGrid == 7
\* largest initial capacity handed to Tree.create in the Tree specification
MaxInitCap == 2
\* most nodes created in the Tree specification
MaxNodes == 4
\* bitmaps of the Bitmap specification have at most MaxSide cells a side
MaxSide == 3
\* most mutating calls made on one bitmap in the Bitmap specification
MaxOps == 2
\* out-of-range coordinates tried: -MaxOut .. side - 1 + MaxOut
MaxOut == 1
\* longest buffer handed to Bitmap.fromUnit8array
MaxBytes == 3
\* toSkeleton runs on filled rectangles in a grid of MaxSkelSide cells a side
MaxSkelSide == 2
\* most Voronoi polygon vertices handed to toSkeleton's loop
MaxVertices == 2
\* thin() also runs on filled blocks of MaxThinSide cells a side
MaxThinSide == 5
\* most addChild calls on a tree whose children may be added again
MaxAdds == 3

----------------------------------------------------------------------------
(* JavaScript values and integer arithmetic *)

Null == -1
Undefined == -2

\* the value read as a signed 8-bit integer (a store into an Int8Array)
ToInt8(v) == LET u == v % 256 IN IF u >= 128 THEN u - 256 ELSE u

\* (a >>> 0) < b for b >= 0: a negative a converts to a value >= 2^31
U32Less(a, b) == IF a < 0 THEN FALSE ELSE a < b

\* Evaluate e once and hand its value to F. (The model checker evaluates
\* the arguments of an operator where they are used; a recursion passes
\* its arguments through this to evaluate each one a single time.)
Strict(e, F(_)) == CHOOSE r \in {F(v) : v \in {e}} : TRUE

Pow2(n) == IF n = 0 THEN 1 ELSE IF n = 1 THEN 2 ELSE IF n = 2 THEN 4
           ELSE IF n = 3 THEN 8 ELSE IF n = 4 THEN 16 ELSE IF n = 5 THEN 32
           ELSE IF n = 6 THEN 64 ELSE 128

\* Math.ceil(n / 8)
CeilDiv8(n) == (n + 7) \div 8

\* a >> k for a >= 0, and 1 << k
Shr(a, k) == a \div Pow2(k)
Shl1(k) == Pow2(k)

\* bit k of the two's complement integer a, k < 8
Bit(a, k) == ((a % 256) \div Pow2(k)) % 2

\* a & b, a | b, a ^ b on the low 8 bits and ~a. Every bitwise operation of
\* the program has a byte, a mask below 2^8 or a direction as an operand or
\* stores its result in a byte, so the low 8 bits decide it.
BitAndBytes(a, b) ==
    Bit(a, 0) * Bit(b, 0) + 2 * Bit(a, 1) * Bit(b, 1)
    + 4 * Bit(a, 2) * Bit(b, 2) + 8 * Bit(a, 3) * Bit(b, 3)
    + 16 * Bit(a, 4) * Bit(b, 4) + 32 * Bit(a, 5) * Bit(b, 5)
    + 64 * Bit(a, 6) * Bit(b, 6) + 128 * Bit(a, 7) * Bit(b, 7)
\* (a & (2^k - 1) is a mod 2^k in two's complement)
BitAnd(a, b) ==
    IF b = 1 THEN a % 2
    ELSE IF b = 7 THEN a % 8
    ELSE IF b = 127 THEN a % 128
    ELSE BitAndBytes(a, b)
BitXor(a, b) ==
    ((Bit(a, 0) + Bit(b, 0)) % 2) + 2 * ((Bit(a, 1) + Bit(b, 1)) % 2)
    + 4 * ((Bit(a, 2) + Bit(b, 2)) % 2) + 8 * ((Bit(a, 3) + Bit(b, 3)) % 2)
    + 16 * ((Bit(a, 4) + Bit(b, 4)) % 2) + 32 * ((Bit(a, 5) + Bit(b, 5)) % 2)
    + 64 * ((Bit(a, 6) + Bit(b, 6)) % 2) + 128 * ((Bit(a, 7) + Bit(b, 7)) % 2)
BitOr(a, b) == BitAnd(a, b) + BitXor(a, b)
BitNot(a) == -a - 1

----------------------------------------------------------------------------
(* Bitmap (src/src/Bitmap.ts, the class of lines 73-273) *)

RangeError == -3

\* a read of a Uint8Array / Int8Array: undefined past the end
ByteAt(data, i) == IF i \in DOMAIN data THEN data[i] ELSE Undefined

\* a store into a Uint8Array: ignored past the end, kept modulo 256
ByteStore(data, i, v) ==
    IF i \in DOMAIN data THEN [data EXCEPT ![i] = v % 256] ELSE data

\* an operand of >>, &, |, ^: undefined converts to 0
ToInt32(v) == IF v = Undefined THEN 0 ELSE v

BitmapCreate(w, h) ==
    [width |-> w, height |-> h,
     data |-> [i \in 0 .. CeilDiv8(w * h) - 1 |-> 0]]

\* a bounds that tests the upper edges only
BoundsUpperOnly(b, px, py) == ~(px >= b.width \/ py >= b.height)

bounds(b, px, py) ==
    ~(px < 0 \/ px >= b.width \/ py < 0 \/ py >= b.height)

coordsToIndex(b, px, py) ==
    IF ~bounds(b, px, py) THEN RangeError ELSE py * b.width + px

indexToCoords(b, i) == <<i % b.width, i \div b.width>>

getByIndex(b, i) ==
    LET byteIndex == i \div 8
        bitIndex == i % 8
    IN  BitAnd(Shr(ToInt32(ByteAt(b.data, byteIndex)), bitIndex), 1) > 0

get(b, px, py) ==
    LET i == coordsToIndex(b, px, py)
    IN  IF i = RangeError THEN RangeError
        ELSE IF getByIndex(b, i) THEN 1 ELSE 0

setByIndex(b, i, value) ==
    LET byteIndex == i \div 8
        bitIndex == i % 8
        old == ToInt32(ByteAt(b.data, byteIndex))
    IN  IF value
        THEN [b EXCEPT !.data =
                 ByteStore(@, byteIndex, BitOr(old, Shl1(bitIndex)))]
        ELSE [b EXCEPT !.data =
                 ByteStore(@, byteIndex, BitAnd(old, BitNot(Shl1(bitIndex))))]

\* the bitmap after set(x, y, value); unchanged when coordsToIndex throws
set(b, px, py, value) ==
    LET i == coordsToIndex(b, px, py)
    IN  IF i = RangeError THEN b ELSE setByIndex(b, i, value)

\* a toggle that sets the bit instead of flipping it
ToggleSetsOnly(b, px, py) == set(b, px, py, TRUE)

toggle(b, px, py) ==
    LET i == coordsToIndex(b, px, py)
        byteIndex == i \div 8
        bitIndex == i % 8
    IN  IF i = RangeError THEN b
        ELSE [b EXCEPT !.data =
                 ByteStore(@, byteIndex,
                           BitXor(ToInt32(ByteAt(b.data, byteIndex)),
                                  Shl1(bitIndex)))]

\* fromUnit8array(width, height, data): the constructor call, which keeps
\* the buffer as it is given
fromUnit8array(w, h, data) == [width |-> w, height |-> h, data |-> data]

\* forEach: the values handed to the callback, in order (index k-1 at k):
\* bit after bit of byte after byte, until the bytes or width * height bits
\* run out
forEach(b) ==
    LET totalBits == b.width * b.height
        avail == 8 * Cardinality(DOMAIN b.data)
        n == IF avail < totalBits THEN avail ELSE totalBits
    IN  [k \in 1 .. n |->
           BitAnd(Shr(b.data[(k - 1) \div 8], (k - 1) % 8), 1) > 0]

\* fromBooleanMatrix, the matrix given as its set of true cells: set(x, y,
\* matrix[y][x]) for x, then y, ascending; i counts the calls made
RECURSIVE SetAll(_, _, _)
SetAll(b, cells, i) ==
    IF i >= b.width * b.height THEN b
    ELSE Strict(set(b, i \div b.height, i % b.height,
                    <<i \div b.height, i % b.height>> \in cells),
                LAMBDA b1 : SetAll(b1, cells, i + 1))

fromBooleanMatrix(w, h, cells) == SetAll(BitmapCreate(w, h), cells, 0)

----------------------------------------------------------------------------
(* toSkeleton (src/src/Bitmap/suzukiAbeContourAlgorithm.ts). A coordinate of
   a Voronoi vertex is held in hundredths: the integer c stands for c / 100. *)

\* the points pushed by boundaryPoints(): the set cells on the edge of the
\* bitmap or with a clear 4-neighbour, in index order
boundaryPoints(b) ==
    LET vs == forEach(b)
        onBoundary(i) ==
            LET c == indexToCoords(b, i)
            IN  \/ c[1] = 0 \/ c[1] = b.width - 1
                \/ c[2] = 0 \/ c[2] = b.height - 1
                \/ get(b, c[1], c[2] - 1) # 1 \/ get(b, c[1], c[2] + 1) # 1
                \/ get(b, c[1] - 1, c[2]) # 1 \/ get(b, c[1] + 1, c[2]) # 1
        keep == {i \in 0 .. Len(vs) - 1 : vs[i + 1] /\ onBoundary(i)}
        F[i \in 0 .. Len(vs)] ==
            IF i = 0 THEN <<>>
            ELSE IF (i - 1) \in keep
                 THEN Append(F[i - 1], indexToCoords(b, i - 1))
                 ELSE F[i - 1]
    IN  F[Len(vs)]

\* Math.round that drops the fraction
MathRoundDown(c) == c \div 100

\* Math.round of c / 100, as a whole number: halves go up
MathRound(c) == (c + 50) \div 100

\* hasHalfFraction(n): 0.49 < |n % 1| < 0.51
hasHalfFraction(c) ==
    LET frac == c % 100
    IN  49 < frac /\ frac < 51

\* the test of add(x, y, x0, y0): the probed cell is in range and set
Probe(b, x0, y0) == bounds(b, x0, y0) /\ get(b, x0, y0) = 1

\* the effect of add(x, y, x0, y0) when the probe passes
Pushed(sk, p) ==
    [sk EXCEPT !.seen = @ \cup {p}, !.medialEdges = Append(@, p)]

\* the loop body for one vertex p = <<x, y>> of a cell polygon
SkelVertex(b, sk, p) ==
    IF p \in sk.seen THEN sk
    ELSE IF /\ hasHalfFraction(p[1])
            /\ \/ Probe(b, MathRound(p[1] - 1), MathRound(p[2]))
               \/ Probe(b, MathRound(p[1] + 1), MathRound(p[2]))
         THEN Pushed(sk, p)
    ELSE IF /\ hasHalfFraction(p[2])
            /\ \/ Probe(b, MathRound(p[1]), MathRound(p[2] - 1))
               \/ Probe(b, MathRound(p[1]), MathRound(p[2] + 1))
         THEN Pushed(sk, p)
    ELSE IF Probe(b, MathRound(p[1]), MathRound(p[2])) THEN Pushed(sk, p)
    ELSE sk

----------------------------------------------------------------------------
(* Zhang-Suen thinning (src/src/Bitmap/zhangSuenThinning.ts) *)

\* out.get(x, y) as a truth value
Cell(b, px, py) == get(b, px, py) = 1

\* [p2, p3, p4, p5, p6, p7, p8, p9]: the neighbours clockwise from the top
Neighbors(b, px, py) ==
    <<Cell(b, px, py - 1), Cell(b, px + 1, py - 1), Cell(b, px + 1, py),
      Cell(b, px + 1, py + 1), Cell(b, px, py + 1), Cell(b, px - 1, py + 1),
      Cell(b, px - 1, py), Cell(b, px - 1, py - 1)>>

\* the cell (px, py) is pushed on toRemove in sub-pass pass
Marked(b, pass, px, py) ==
    /\ Cell(b, px, py)
    /\ \E nb \in {Neighbors(b, px, py)} :
         LET numNeighbors == Cardinality({i \in 1 .. 8 : nb[i]})
             transitions ==
                 Cardinality({i \in 1 .. 8 : ~nb[i] /\ nb[(i % 8) + 1]})
             p2 == nb[1]
             p4 == nb[3]
             p6 == nb[5]
             p8 == nb[7]
         IN  /\ ~(numNeighbors < 2 \/ numNeighbors > 6)
             /\ transitions = 1
             /\ IF pass = 0
                THEN (~p2 \/ ~p4 \/ ~p6) /\ (~p4 \/ ~p6 \/ ~p8)
                ELSE (~p2 \/ ~p4 \/ ~p8) /\ (~p2 \/ ~p6 \/ ~p8)

\* the cells of toRemove after the scan of sub-pass pass
toRemove(b, pass) ==
    {c \in (1 .. b.width - 2) \X (1 .. b.height - 2) :
       Marked(b, pass, c[1], c[2])}

\* for (const [x, y] of toRemove) out.set(x, y, false), in the scan's order
\* (row after row); i is the next cell index looked at
RECURSIVE RemoveAll(_, _, _)
RemoveAll(b, cells, i) ==
    IF i >= b.width * b.height THEN b
    ELSE Strict(IF <<i % b.width, i \div b.width>> \in cells
                THEN set(b, i % b.width, i \div b.width, FALSE)
                ELSE b,
                LAMBDA b1 : RemoveAll(b1, cells, i + 1))

\* the sub-passes pass .. 2 of one iteration of the while loop:
\* [out, changed]
RECURSIVE ThinPasses(_, _, _)
ThinPasses(b, pass, changed) ==
    IF ~(pass < 3) THEN [out |-> b, changed |-> changed]
    ELSE Strict(toRemove(b, pass), LAMBDA rem :
           IF rem # {}
           THEN Strict(RemoveAll(b, rem, 0), LAMBDA b1 :
                  ThinPasses(b1, pass + 1, TRUE))
           ELSE ThinPasses(b, pass + 1, changed))

\* one iteration of the while loop and no more
ThinSingleIteration(map) == ThinPasses(map, 0, FALSE).out

\* zhangSuenThinning(map): iterations until one changes nothing
RECURSIVE zhangSuenThinning(_)
zhangSuenThinning(map) ==
    Strict(ThinPasses(map, 0, FALSE), LAMBDA r :
      IF r.changed THEN zhangSuenThinning(r.out) ELSE r.out)

\* Bitmap.thin
thin(b) == zhangSuenThinning(b)

----------------------------------------------------------------------------
(* Tree (src/unnamed/part_019, lines 29-230) *)

\* 0xffffffff in the source, "max uint32 as null". The largest integer of the
\* model checker is 2^31 - 1; handles stay below it (new() rejects an index
\* >= 2147483647), so it stands for the sentinel here.
MAX == 2147483647
DefaultCapacity == 1000

\* the operation never returns (a loop that cannot end)
Hang == -4

\* A Uint32Array filled with MAX, kept as its length and the cells stored
\* since: a read past the end is undefined, a store past the end is ignored.
U32New(n) == [len |-> n, at |-> [i \in {} |-> MAX]]
U32Get(a, i) ==
    IF i \in 0 .. a.len - 1
    THEN (IF i \in DOMAIN a.at THEN a.at[i] ELSE MAX)
    ELSE Undefined
U32Put(a, i, v) ==
    IF i \in 0 .. a.len - 1
    THEN [a EXCEPT !.at = [j \in DOMAIN a.at \cup {i} |->
                              IF j = i THEN v ELSE a.at[j]]]
    ELSE a
\* new Uint32Array(n).fill(MAX) followed by set(old), for n >= old.len
U32Grow(a, n) == [len |-> n, at |-> a.at]

TreeCreate(initialCapacity) ==
    [values |-> <<>>,
     firstChild |-> U32New(initialCapacity),
     nextSibling |-> U32New(initialCapacity),
     parent |-> U32New(initialCapacity),
     capacity |-> initialCapacity,
     size |-> 0]

resize(t, newCapacity) ==
    [t EXCEPT !.firstChild = U32Grow(@, newCapacity),
              !.nextSibling = U32Grow(@, newCapacity),
              !.parent = U32Grow(@, newCapacity),
              !.capacity = newCapacity]

\* the tree after new(body); the handle returned is t.size
TreeNew(t, body) ==
    LET idx == t.size
        t1 == IF idx >= t.capacity THEN resize(t, t.capacity * 2) ELSE t
    IN  [t1 EXCEPT !.values = Append(@, body), !.size = @ + 1]

TreeGet(t, id) ==
    IF id \in 0 .. Len(t.values) - 1 THEN t.values[id + 1] ELSE Undefined

getParent(t, id) ==
    LET val == U32Get(t.parent, id) IN IF val = MAX THEN Null ELSE val

setParent(t, id, parentId) ==
    LET parentIdx == IF parentId = Null THEN MAX ELSE parentId
    IN  [t EXCEPT !.parent = U32Put(@, id, parentIdx)]

getFirstChild(t, id) ==
    LET val == U32Get(t.firstChild, id) IN IF val = MAX THEN Null ELSE val

setFirstChild(t, id, childId) ==
    LET childIdx == IF childId = Null THEN MAX ELSE childId
    IN  [t EXCEPT !.firstChild = U32Put(@, id, childIdx)]

getNextSibling(t, id) ==
    LET val == U32Get(t.nextSibling, id) IN IF val = MAX THEN Null ELSE val

setNextSibling(t, id, siblingId) ==
    LET siblingIdx == IF siblingId = Null THEN MAX ELSE siblingId
    IN  [t EXCEPT !.nextSibling = U32Put(@, id, siblingIdx)]

\* addChild's walk to the last sibling: the node whose next sibling is null,
\* or Hang when the chain has more links than the arena has nodes (it then
\* never reaches null)
RECURSIVE LastSibling(_, _, _)
LastSibling(t, current, fuel) ==
    Strict(getNextSibling(t, current),
           LAMBDA next : IF next = Null THEN current
                         ELSE IF fuel = 0 THEN Hang
                         ELSE LastSibling(t, next, fuel - 1))

\* an addChild that links the child in front of its siblings
addChildAtHead(t, parentId, childId) ==
    Strict(setParent(t, childId, parentId), LAMBDA t1 :
      [tree |-> setFirstChild(
                  setNextSibling(t1, childId, getFirstChild(t1, parentId)),
                  parentId, childId),
       returns |-> TRUE])

\* the tree after addChild(parentId, childId), and whether the call returns
addChild(t, parentId, childId) ==
    Strict(setParent(t, childId, parentId), LAMBDA t1 :
      IF getFirstChild(t1, parentId) = Null
      THEN [tree |-> setFirstChild(t1, parentId, childId), returns |-> TRUE]
      ELSE Strict(LastSibling(t1, getFirstChild(t1, parentId), t1.size + 1),
                  LAMBDA last :
                    IF last = Hang
                    THEN [tree |-> t1, returns |-> FALSE]
                    ELSE [tree |-> setNextSibling(t1, last, childId),
                          returns |-> TRUE]))

\* getRoots: the handles i < size with parent[i] === MAX, ascending
getRoots(t) ==
    SelectSeq([k \in 1 .. t.size |-> k - 1],
              LAMBDA i : U32Get(t.parent, i) = MAX)

\* children(id): the handles yielded, and whether the generator finishes
\* (it does not when the chain has more links than the arena has nodes)
RECURSIVE ChildrenFrom(_, _, _)
ChildrenFrom(t, child, fuel) ==
    IF child = Null THEN [seq |-> <<>>, ends |-> TRUE]
    ELSE IF fuel = 0 THEN [seq |-> <<child>>, ends |-> FALSE]
    ELSE Strict(getNextSibling(t, child),
                LAMBDA next :
                  Strict(ChildrenFrom(t, next, fuel - 1),
                         LAMBDA rest : [seq |-> <<child>> \o rest.seq,
                                        ends |-> rest.ends]))

children(t, id) == ChildrenFrom(t, getFirstChild(t, id), t.size + 1)

----------------------------------------------------------------------------
(* ContourExtractor (src/src/ContourExtractor.test.ts, lines 740-1218) *)

DX == <<1, 1, 0, -1, -1, -1, 0, 1>>
DY == <<0, 1, 1, 1, 0, -1, -1, -1>>

MASK8_RIGHT == 128
MASK8_NEW == 2
MASK8_FLAGS == 254
MASK8_BLACK == 1
MASK8_LVAL == 127

ApproxNone == 0
ApproxSimple == 1

offsetX == -1
offsetY == -1

\* a TypeError: a property read on undefined
TypeErr == -5

\* this.image[i]
ImgAt(img, i) == IF i \in DOMAIN img THEN img[i] ELSE Undefined

\* this.image[i] = v (an Int8Array store)
ImgStore(img, i, v) ==
    IF i \in DOMAIN img THEN [img EXCEPT ![i] = ToInt8(v)] ELSE img

\* a callback that does not skip the two border cells between rows: the
\* value of index o goes to the image cell i + (o - io) + 1
FillImageNoRowSkip(img, vals, io, i, bw) ==
    [k \in DOMAIN img |->
       IF \E o \in io .. Len(vals) - 1 : vals[o + 1] /\ k = i + (o - io) + 1
       THEN 1 ELSE img[k]]

\* fromBitmap's forEach callback applied to the values of indices
\* io .. to - 1, in that order, from st = [image, i], i being the callback's
\* running index into the image; the calls are grouped in halves, which
\* keeps the evaluation shallow and leaves their order unchanged
RECURSIVE FillRange(_, _, _, _, _)
FillRange(st, vals, io, to, bw) ==
    IF to <= io THEN st
    ELSE IF to = io + 1
    THEN Strict((IF io % bw = 0 THEN st.i + 2 ELSE st.i) + 1, LAMBDA i1 :
           [image |-> IF vals[io + 1] THEN ImgStore(st.image, i1, 1)
                      ELSE st.image,
            i |-> i1])
    ELSE Strict((io + to) \div 2, LAMBDA mid :
           Strict(FillRange(st, vals, io, mid, bw), LAMBDA half :
             FillRange(half, vals, mid, to, bw)))

\* the forEach callback applied to the values from index io on
FillImage(img, vals, io, i, bw) ==
    Strict(<<[image |-> img, i |-> i], Len(vals)>>, LAMBDA a :
      FillRange(a[1], vals, io, a[2], bw).image)

\* fromBitmap: <<image, width, height>>
fromBitmap(b) ==
    LET w == b.width + 2
        h == b.height + 2
    IN  <<Strict(forEach(b), LAMBDA vals :
                   FillImage([i \in 0 .. w * h - 1 |-> 0], vals, 0, w - 2,
                             b.width)),
          w, h>>

getIndexDelta(dir, w) == DX[(dir % 8) + 1] + DY[(dir % 8) + 1] * w

ceCoordsToIndex(cx, cy, w) == cx + w * cy

checkValue(img, i) == ImgAt(img, i) # 0

isRight(img, i) == BitAnd(ToInt32(ImgAt(img, i)), MASK8_RIGHT) # 0

isValue(img, i) == ImgAt(img, i) = MASK8_BLACK

\* a setRightFlag that stores the label without the right flag
SetRightFlagPlain(img, i, n) == ImgStore(img, i, n)

setRightFlag(img, i, n) == ImgStore(img, i, BitOr(n, MASK8_RIGHT))

setNewFlag(img, i, n) == ImgStore(img, i, n)

\* do { s = (s - 1) & 7; i1 = i0 + delta(s) } while (!checkValue(i1) && s !== sEnd):
\* the final s
RECURSIVE InitialDir(_, _, _, _, _)
InitialDir(img, w, i0, s, sEnd) ==
    Strict(BitAnd(s - 1, 7), LAMBDA s1 :
      IF ~checkValue(img, i0 + getIndexDelta(s1, w)) /\ s1 # sEnd
      THEN InitialDir(img, w, i0, s1, sEnd)
      ELSE s1)

\* while (s < 15) { s++; i4 = i3 + delta(s); if (checkValue(i4)) break }: the final s
RECURSIVE NextDir(_, _, _, _)
NextDir(img, w, i3, s) ==
    IF ~(s < 15) THEN s
    ELSE Strict(s + 1, LAMBDA s1 :
           IF checkValue(img, i3 + getIndexDelta(s1, w)) THEN s1
           ELSE NextDir(img, w, i3, s1))

\* hitsContourTrace: "is this the last contour" walk back from direction t;
\* TRUE when it returns true, FALSE when it breaks out
RECURSIVE LastContourCheck(_, _, _, _)
LastContourCheck(img, w, i3, t) ==
    Strict(BitAnd(t - 1, 7), LAMBDA t1 :
      IF ImgAt(img, i3 + getIndexDelta(t1, w)) # 0 THEN FALSE
      ELSE IF t1 = 0 THEN TRUE
      ELSE LastContourCheck(img, w, i3, t1))

\* hitsContourTrace's border-following loop from the state
\* st = [i3, s, hit, hangs], pixel i3 and direction cursor s, run for at most
\* fuel iterations. hangs tells that the loop has not reached a return (it
\* is TRUE on entry, and stays TRUE when the fuel runs out); hit is the value
\* returned. Fuel 1 is one iteration of the loop; a larger fuel is run in two
\* halves, one after the other, which keeps the evaluation shallow.
RECURSIVE HitsLoop(_, _, _, _, _, _, _)
HitsLoop(img, w, i0, i1, stopPtr, st, fuel) ==
    IF ~st.hangs \/ fuel = 0 THEN st
    ELSE IF fuel = 1
    THEN Strict(NextDir(img, w, st.i3, st.s), LAMBDA s1 :
           Strict(st.i3 + getIndexDelta(s1, w), LAMBDA i4 :
             IF st.i3 = stopPtr /\ ~isRight(img, st.i3)
             THEN [st EXCEPT !.hit = TRUE, !.hangs = FALSE]
             ELSE IF st.i3 = stopPtr /\ LastContourCheck(img, w, st.i3, s1)
             THEN [st EXCEPT !.hit = TRUE, !.hangs = FALSE]
             ELSE IF i4 = i0 /\ st.i3 = i1
             THEN [st EXCEPT !.hit = FALSE, !.hangs = FALSE]
             ELSE [i3 |-> i4, s |-> BitAnd(s1 + 4, 7), hit |-> FALSE,
                   hangs |-> TRUE]))
    ELSE Strict(<<fuel \div 2, fuel - (fuel \div 2)>>, LAMBDA f :
           Strict(HitsLoop(img, w, i0, i1, stopPtr, st, f[1]), LAMBDA half :
             HitsLoop(img, w, i0, i1, stopPtr, half, f[2])))

hitsContourTrace(img, w, start, end, isHole) ==
    LET stopPtr == ceCoordsToIndex(end[1], end[2], w)
        i0 == ceCoordsToIndex(start[1], start[2], w)
        sEnd == IF isHole THEN 0 ELSE 4
    IN  Strict(InitialDir(img, w, i0, sEnd, sEnd), LAMBDA s :
          IF s # sEnd
          THEN Strict(HitsLoop(img, w, i0, i0 + getIndexDelta(s, w), stopPtr,
                               [i3 |-> i0, s |-> s, hit |-> FALSE,
                                hangs |-> TRUE],
                               8 * Cardinality(DOMAIN img) + 1),
                      LAMBDA r : [hit |-> r.hit, hangs |-> r.hangs])
          ELSE [hit |-> i0 = stopPtr, hangs |-> FALSE])

\* this.ctable[lval]: an Array(MASK8_LVAL).fill(null), kept as the entries stored
CtGet(ct, lval) ==
    IF lval \in DOMAIN ct THEN ct[lval]
    ELSE IF lval \in 0 .. MASK8_LVAL - 1 THEN Null ELSE Undefined

CtPut(ct, lval, v) ==
    [j \in DOMAIN ct \cup {lval} |-> IF j = lval THEN v ELSE ct[j]]

\* findFirstBoundingContour's loop over the label chain from cur, res being
\* the candidate so far: the node found, null, TypeErr (a chain entry that
\* is no node) or Hang
RECURSIVE BoundingLoop(_, _, _, _, _, _, _)
BoundingLoop(img, w, t, ln, cy, cur, res) ==
    IF cur = Null THEN res
    ELSE IF cur \notin 0 .. Len(t.values) - 1 THEN TypeErr
    ELSE Strict(TreeGet(t, cur), LAMBDA el :
           LET bb == el.boundingBox
               fits == ln[1] - bb[1] < bb[3] /\ ln[2] - bb[2] < bb[4]
           IN  Strict(IF fits /\ res # Null
                      THEN hitsContourTrace(img, w, TreeGet(t, res).origin,
                                            <<ln[1], cy>>,
                                            TreeGet(t, res).isHole)
                      ELSE [hit |-> FALSE, hangs |-> FALSE],
                      LAMBDA tr :
                        IF tr.hangs THEN Hang
                        ELSE IF tr.hit THEN res
                        ELSE BoundingLoop(img, w, t, ln, cy, el.ctableNext,
                                          IF fits THEN cur ELSE res)))

findFirstBoundingContour(img, w, t, ct, ln, cy, lval) ==
    Strict(CtGet(ct, lval), LAMBDA first :
      BoundingLoop(img, w, t, ln, cy, first, Null))

\* the bounding rectangle [minX, minY, maxX, maxY] widened to hold point p
UpdateBoundsMinOnly(r, p) ==
    LET r1 == IF p[1] < r[1] THEN [r EXCEPT ![1] = p[1]] ELSE r
    IN  IF p[2] < r1[2] THEN [r1 EXCEPT ![2] = p[2]] ELSE r1

UpdateBounds(r, p) ==
    LET r1 == IF p[1] < r[1] THEN [r EXCEPT ![1] = p[1]]
              ELSE IF p[1] > r[3] THEN [r EXCEPT ![3] = p[1]]
              ELSE r
    IN  IF p[2] < r1[2] THEN [r1 EXCEPT ![2] = p[2]]
        ELSE IF p[2] > r1[4] THEN [r1 EXCEPT ![4] = p[2]]
        ELSE r1

\* the body of makeContourTrace's "follow border" loop once the direction
\* cursor s (masked to 0..7) of the next border pixel is known:
\* [image, rect, points, point, prevS]
TraceBodyAlwaysPush(st, n, approx, sEndLoop, s) ==
    [image |-> IF U32Less(s - 1, sEndLoop)
               THEN setRightFlag(st.image, st.i3, n)
               ELSE IF isValue(st.image, st.i3)
               THEN setNewFlag(st.image, st.i3, n)
               ELSE st.image,
     points |-> Append(st.points, st.point),
     rect |-> IF s # st.prevS THEN UpdateBounds(st.rect, st.point)
              ELSE st.rect,
     point |-> <<st.point[1] + DX[s + 1], st.point[2] + DY[s + 1]>>,
     prevS |-> s]

\* a loop body that pushes the point twice
TraceBodyPushTwice(st, n, approx, sEndLoop, s) ==
    [image |-> IF U32Less(s - 1, sEndLoop)
               THEN setRightFlag(st.image, st.i3, n)
               ELSE IF isValue(st.image, st.i3)
               THEN setNewFlag(st.image, st.i3, n)
               ELSE st.image,
     points |-> IF approx = ApproxNone
                   \/ (approx = ApproxSimple /\ s # st.prevS)
                THEN Append(Append(st.points, st.point), st.point)
                ELSE st.points,
     rect |-> IF s # st.prevS THEN UpdateBounds(st.rect, st.point)
              ELSE st.rect,
     point |-> <<st.point[1] + DX[s + 1], st.point[2] + DY[s + 1]>>,
     prevS |-> s]

TraceBody(st, n, approx, sEndLoop, s) ==
    [image |-> IF U32Less(s - 1, sEndLoop)
               THEN setRightFlag(st.image, st.i3, n)
               ELSE IF isValue(st.image, st.i3)
               THEN setNewFlag(st.image, st.i3, n)
               ELSE st.image,
     points |-> IF approx = ApproxNone
                   \/ (approx = ApproxSimple /\ s # st.prevS)
                THEN Append(st.points, st.point)
                ELSE st.points,
     rect |-> IF s # st.prevS THEN UpdateBounds(st.rect, st.point)
              ELSE st.rect,
     point |-> <<st.point[1] + DX[s + 1], st.point[2] + DY[s + 1]>>,
     prevS |-> s]

\* makeContourTrace's "follow border" loop from the state
\* st = [image, s, i3, prevS, point, rect, points, cursorOk, hangs], run
\* for at most fuel iterations. hangs tells that the loop has not reached
\* its return (it is TRUE on entry, and stays TRUE when the fuel runs out);
\* cursorOk tells whether console.assert(s < 15 && s > 0) held at every loop
\* head. Fuel 1 is one iteration of the loop; a larger fuel is run in two
\* halves, one after the other, which keeps the evaluation shallow.
RECURSIVE TraceLoop(_, _, _, _, _, _, _)
TraceLoop(st, w, i0, i1, n, approx, fuel) ==
    IF ~st.hangs \/ fuel = 0 THEN st
    ELSE IF fuel = 1
    THEN Strict(NextDir(st.image, w, st.i3, st.s), LAMBDA s1 :
           Strict(TraceBody(st, n, approx, st.s, BitAnd(s1, 7)), LAMBDA b :
             LET i4 == st.i3 + getIndexDelta(s1, w)
                 ok == st.cursorOk /\ st.s < 15 /\ st.s > 0
             IN  IF i4 = i0 /\ st.i3 = i1
                 THEN [st EXCEPT !.image = b.image, !.rect = b.rect,
                                 !.points = b.points, !.cursorOk = ok,
                                 !.hangs = FALSE]
                 ELSE [image |-> b.image, s |-> BitAnd(b.prevS + 4, 7),
                       i3 |-> i4, prevS |-> b.prevS, point |-> b.point,
                       rect |-> b.rect, points |-> b.points,
                       cursorOk |-> ok, hangs |-> TRUE]))
    ELSE Strict(<<fuel \div 2, fuel - (fuel \div 2)>>, LAMBDA f :
           Strict(TraceLoop(st, w, i0, i1, n, approx, f[1]), LAMBDA half :
             TraceLoop(half, w, i0, i1, n, approx, f[2])))

\* the direction the neighbour search starts from and ends at
StartDirAlwaysOuter(isHole) == 4

\* a start direction with the two kinds of border exchanged
StartDirSwapped(isHole) == IF isHole THEN 4 ELSE 0

StartDir(isHole) == IF isHole THEN 0 ELSE 4

\* makeContourTrace on a pixel with no neighbour (s === sEnd)
SinglePixelNoPoint(img, i0, n, point, rect) ==
    [image |-> setRightFlag(img, i0, n), rect |-> rect, points |-> <<>>,
     hangs |-> FALSE, cursorOk |-> TRUE]

SinglePixel(img, i0, n, point, rect) ==
    [image |-> setRightFlag(img, i0, n), rect |-> rect, points |-> <<point>>,
     hangs |-> FALSE, cursorOk |-> TRUE]

\* makeContourTrace: [image, rect, points, hangs], rect being [x, y, w, h]
\* in the translated space
makeContourTrace(img, w, n, approx, start, isHole, point, rect) ==
    LET i0 == ceCoordsToIndex(start[1], start[2], w)
        sEnd == StartDir(isHole)
    IN  Strict(InitialDir(img, w, i0, sEnd, sEnd), LAMBDA s :
          Strict(IF s = sEnd
                 THEN SinglePixel(img, i0, n, point, rect)
                 ELSE TraceLoop([image |-> img, s |-> s, i3 |-> i0,
                                 prevS |-> BitXor(s, 4), point |-> point,
                                 rect |-> rect, points |-> <<>>,
                                 cursorOk |-> TRUE, hangs |-> TRUE],
                                w, i0, i0 + getIndexDelta(s, w), n, approx,
                                8 * Cardinality(DOMAIN img) + 1),
                 LAMBDA tr :
                   [image |-> tr.image,
                    rect |-> <<tr.rect[1], tr.rect[2],
                               tr.rect[3] - (tr.rect[1] - 1),
                               tr.rect[4] - (tr.rect[2] - 1)>>,
                    points |-> tr.points,
                    hangs |-> tr.hangs,
                    cursorOk |-> tr.cursorOk]))

\* a makeContour that keeps the rectangle as traced, not translated back
MakeContourRectAsTraced(img, w, n0, t, ct, approx, isHole, start) ==
    LET n1 == (n0 + 1) % MASK8_LVAL
        n == IF n1 = 0 THEN BitOr(MASK8_BLACK, MASK8_NEW) ELSE n1
        lval == n
        point == <<start[1] + offsetX, start[2] + offsetY>>
    IN  Strict(makeContourTrace(img, w, n, approx, start, isHole, point,
                                <<point[1], point[2], point[1], point[2]>>),
               LAMBDA tr :
                 [image |-> tr.image,
                  nbd |-> n,
                  tree |-> TreeNew(t, [points |-> tr.points,
                                       isHole |-> isHole,
                                       origin |-> start,
                                       boundingBox |->
                                         tr.rect,
                                       ctableNext |-> CtGet(ct, lval)]),
                  ctable |-> CtPut(ct, lval, t.size),
                  node |-> t.size,
                  hangs |-> tr.hangs,
                  cursorOk |-> tr.cursorOk])

\* a makeContour that starts the point list at the padded-image position
makeContourUntranslated(img, w, n0, t, ct, approx, isHole, start) ==
    LET n1 == (n0 + 1) % MASK8_LVAL
        n == IF n1 = 0 THEN BitOr(MASK8_BLACK, MASK8_NEW) ELSE n1
        lval == n
        point == <<start[1], start[2]>>
    IN  Strict(makeContourTrace(img, w, n, approx, start, isHole, point,
                                <<point[1], point[2], point[1], point[2]>>),
               LAMBDA tr :
                 [image |-> tr.image,
                  nbd |-> n,
                  tree |-> TreeNew(t, [points |-> tr.points,
                                       isHole |-> isHole,
                                       origin |-> start,
                                       boundingBox |->
                                         <<tr.rect[1] - offsetX,
                                           tr.rect[2] - offsetY,
                                           tr.rect[3], tr.rect[4]>>,
                                       ctableNext |-> CtGet(ct, lval)]),
                  ctable |-> CtPut(ct, lval, t.size),
                  node |-> t.size,
                  hangs |-> tr.hangs,
                  cursorOk |-> tr.cursorOk])

\* makeContour: the extractor's [image, nbd, tree, ctable] after the call,
\* the new node's handle, whether the trace hangs, and whether the cursor
\* assertion of the trace held each time
makeContour(img, w, n0, t, ct, approx, isHole, start) ==
    LET n1 == (n0 + 1) % MASK8_LVAL
        n == IF n1 = 0 THEN BitOr(MASK8_BLACK, MASK8_NEW) ELSE n1
        lval == n
        point == <<start[1] + offsetX, start[2] + offsetY>>
    IN  Strict(makeContourTrace(img, w, n, approx, start, isHole, point,
                                <<point[1], point[2], point[1], point[2]>>),
               LAMBDA tr :
                 [image |-> tr.image,
                  nbd |-> n,
                  tree |-> TreeNew(t, [points |-> tr.points,
                                       isHole |-> isHole,
                                       origin |-> start,
                                       boundingBox |->
                                         <<tr.rect[1] - offsetX,
                                           tr.rect[2] - offsetY,
                                           tr.rect[3], tr.rect[4]>>,
                                       ctableNext |-> CtGet(ct, lval)]),
                  ctable |-> CtPut(ct, lval, t.size),
                  node |-> t.size,
                  hangs |-> tr.hangs,
                  cursorOk |-> tr.cursorOk])

----------------------------------------------------------------------------
(* Input bitmaps of the extraction *)

Grid(w, h) == (0 .. w - 1) \X (0 .. h - 1)

RectCells(x0, x1, y0, y1) == (x0 .. x1) \X (y0 .. y1)

\* every bitmap of at most MaxCells cells and MaxSpan cells a side
SmallBitmaps ==
    UNION {{fromBooleanMatrix(d[1], d[2], cells) :
              cells \in SUBSET Grid(d[1], d[2])} :
           d \in {d \in (1 .. MaxSpan) \X (1 .. MaxSpan) :
                    d[1] * d[2] <= MaxCells}}

\* the spans <<lo, hi>> along one axis of n cells
Spans(n) == {q \in (0 .. n - 1) \X (0 .. n - 1) : q[1] <= q[2]}

\* one filled rectangle (a single cell included)
RectBitmaps ==
    {fromBooleanMatrix(MaxGrid, MaxGrid, RectCells(q[1][1], q[1][2], q[2][1], q[2][2])) :
       q \in Spans(MaxGrid) \X Spans(MaxGrid)}

\* the placements <<lo, hi, hlo, hhi>> along one axis of n cells: a filled
\* span lo..hi with a hole span hlo..hhi of at least 2 cells strictly inside
HoleSpans(n) ==
    {q \in (0 .. n - 1) \X (0 .. n - 1) \X (0 .. n - 1) \X (0 .. n - 1) :
       q[1] < q[3] /\ q[3] < q[4] /\ q[4] < q[2]}

\* one filled rectangle with one rectangular hole strictly inside it
HoleBitmaps ==
    {fromBooleanMatrix(MaxHoleGrid, MaxHoleGrid,
                       RectCells(q[1][1], q[1][2], q[2][1], q[2][2])
                       \ RectCells(q[1][3], q[1][4], q[2][3], q[2][4])) :
       q \in HoleSpans(MaxHoleGrid) \X HoleSpans(MaxHoleGrid)}

\* two 2x2 blocks, top-left corners a and b, neither overlapping nor 8-adjacent
Block(a) == RectCells(a[1], a[1] + 1, a[2], a[2] + 1)

Apart(a, b) ==
    \/ a[1] - b[1] > 2 \/ b[1] - a[1] > 2
    \/ a[2] - b[2] > 2 \/ b[2] - a[2] > 2

BlockBitmaps ==
    {fromBooleanMatrix(BlockGrid, BlockGrid, Block(q[1]) \cup Block(q[2])) :
       q \in {q \in Grid(BlockGrid - 1, BlockGrid - 1)
                    \X Grid(BlockGrid - 1, BlockGrid - 1) : Apart(q[1], q[2])}}

\* the bitmap b inside a frame of set cells, one cell thick
Framed(b) ==
    fromBooleanMatrix(
        b.width + 2, b.height + 2,
        {c \in Grid(b.width + 2, b.height + 2) :
           \/ c[1] \in {0, b.width + 1} \/ c[2] \in {0, b.height + 1}
           \/ get(b, c[1] - 1, c[2] - 1) = 1})

\* every small square bitmap in a frame: holes of any shape, several holes,
\* and a component inside a hole
FramedBitmaps == {Framed(b) : b \in {b \in SmallBitmaps : b.width = b.height}}

\* the inputs of the extraction: <<bitmap, approximation>>
ContourInputs ==
    ((SmallBitmaps \cup FramedBitmaps) \X {ApproxNone})
    \cup ((RectBitmaps \cup HoleBitmaps) \X {ApproxNone, ApproxSimple})
    \cup (BlockBitmaps \X {ApproxSimple})

----------------------------------------------------------------------------
(* The extraction as a state machine: fromBitmap, then extractContours one
   iteration of its loops at a time *)

NoCall == [op |-> "none", seq |-> 0]
NoLog == [news |-> 0, adds |-> <<>>]
NoTwin == [tree |-> TreeCreate(DefaultCapacity), sync |-> TRUE]
NoSkel == [seen |-> {}, medialEdges |-> <<>>, n |-> 0]

Init ==
    /\ \E in \in ContourInputs : bm = in[1] /\ opts = in[2]
    /\ image = <<>>
    /\ width = 0
    /\ height = 0
    /\ lnbd = <<0, 1>>
    /\ nbd = 2
    /\ ctable = <<>>
    /\ tree = TreeCreate(DefaultCapacity)
    /\ x = 0
    /\ y = 0
    /\ prev = 0
    /\ pc = "new"
    /\ call = NoCall
    /\ thinned = <<>>
    /\ log = NoLog
    /\ twin = NoTwin
    /\ skel = NoSkel
    /\ failed = {}

\* ContourExtractor.fromBitmap(bm, opts), and the entry of extractContours
FromBitmap ==
    /\ pc = "new"
    /\ LET e == fromBitmap(bm)
       IN  /\ image' = e[1]
           /\ width' = e[2]
           /\ height' = e[3]
    /\ y' = 1
    /\ pc' = "row"
    /\ UNCHANGED <<bm, opts, lnbd, nbd, ctable, tree, x, prev, call, thinned, log, twin, skel, failed>>

\* a row loop whose test reads y < 1: no row is entered, and the return is
\* never reached
RowStartNoRow ==
    /\ pc = "row"
    /\ y < 1
    /\ prev' = 0
    /\ lnbd' = <<0, y>>
    /\ x' = 1
    /\ pc' = "cell"
    /\ UNCHANGED <<bm, image, width, height, opts, nbd, ctable, tree, y, call,
                   thinned, log, twin, skel, failed>>

\* the head of the row loop: the per-row reset
RowStart ==
    /\ pc = "row"
    /\ y < height - 1
    /\ prev' = 0
    /\ lnbd' = <<0, y>>
    /\ x' = 1
    /\ pc' = "cell"
    /\ UNCHANGED <<bm, image, width, height, opts, nbd, ctable, tree, y, call,
                   thinned, log, twin, skel, failed>>

\* the row loop ends: extractContours returns the tree
ScanDone ==
    /\ pc = "row"
    /\ ~(y < height - 1)
    /\ pc' = "done"
    /\ UNCHANGED <<bm, image, width, height, opts, lnbd, nbd, ctable, tree, x,
                   y, prev, call, thinned, log, twin, skel, failed>>

\* the cell loop ends: next row
RowEnd ==
    /\ pc = "cell"
    /\ ~(x < width - 1)
    /\ y' = y + 1
    /\ pc' = "row"
    /\ UNCHANGED <<bm, image, width, height, opts, lnbd, nbd, ctable, tree, x,
                   prev, call, thinned, log, twin, skel, failed>>

\* for (; x < width - 1 && (current = image[i]) === prev; x++, i++) {}:
\* the x it stops at and the value last read
RECURSIVE SkipRun(_, _, _, _, _, _)
SkipRun(img, w, cy, cx, pv, cur) ==
    IF ~(cx < w - 1) THEN [x |-> cx, current |-> cur]
    ELSE Strict(ImgAt(img, cy * w + cx), LAMBDA c :
           IF c = pv
           THEN Strict(cx + 1, LAMBDA cx1 : SkipRun(img, w, cy, cx1, pv, c))
           ELSE [x |-> cx, current |-> c])

Cursor == SkipRun(image, width, y, x, prev, Undefined)

\* the cell starts an outer border / a hole border / nothing
IsOuterStart(pv, cur) == pv = 0 /\ cur = 1
\* a skip test that looks at the flag bits of prev in place of its sign
IsNoStartByFlags(pv, cur) ==
    ~(pv = 0 /\ cur = 1) /\ (cur # 0 \/ ((pv % 256) \div 2) = 0)

IsNoStart(pv, cur) == ~IsOuterStart(pv, cur) /\ (cur # 0 \/ pv < 1)
IsHoleStart(pv, cur) == ~IsOuterStart(pv, cur) /\ ~IsNoStart(pv, cur)

\* an iteration of the cell loop that starts no border
CellSkip ==
    /\ pc = "cell"
    /\ x < width - 1
    /\ \E c \in {Cursor} :
         /\ c.x >= width \/ IsNoStart(prev, c.current)
         /\ x' = c.x + 1
         /\ IF c.x >= width
            THEN UNCHANGED <<prev, lnbd>>
            ELSE /\ prev' = c.current
                 /\ lnbd' = IF BitAnd(c.current, MASK8_FLAGS) # 0
                            THEN <<c.x, lnbd[2]>>
                            ELSE lnbd
    /\ UNCHANGED <<bm, image, width, height, opts, nbd, ctable, tree, y, pc,
                   call, thinned, log, twin, skel, failed>>

\* the parent kept for a border about to start, found being the result of
\* findFirstBoundingContour: a found node of the new border's own kind is
\* replaced by itself when it has a parent, and kept otherwise
ChooseParent(t, found, isHole) ==
    IF found \in {Null, TypeErr, Hang} \/ found = 0 THEN found
    ELSE IF TreeGet(t, found).isHole = isHole
    THEN (IF getParent(t, found) # Null THEN found ELSE found)
    ELSE found

\* the other approximation mode
OtherMode(approx) == IF approx = ApproxNone THEN ApproxSimple ELSE ApproxNone

\* the twin extractor starting the same border from the same image, lnbd,
\* nbd and ctable, in the other mode and on its own tree; parent and mk are
\* what this extractor chose and made
TwinBorder(ln, start, isHole, parent, mk) ==
    Strict(ChooseParent(
             twin.tree,
             findFirstBoundingContour(
               image, width, twin.tree, ctable, ln, y,
               BitAnd(ToInt32(ImgAt(image, ceCoordsToIndex(ln[1], ln[2], width))),
                      MASK8_LVAL)),
             isHole),
           LAMBDA parent2 :
      Strict(makeContour(image, width, nbd, twin.tree, ctable,
                         OtherMode(opts), isHole, start),
             LAMBDA mk2 :
        Strict(IF parent2 \in {Null, TypeErr, Hang}
               THEN [tree |-> mk2.tree, returns |-> TRUE]
               ELSE addChild(mk2.tree, parent2, mk2.node),
               LAMBDA ac2 :
                 [tree |-> ac2.tree,
                  sync |-> /\ twin.sync
                           /\ parent2 = parent
                           /\ ac2.returns
                           /\ ~mk2.hangs
                           /\ mk2.node = mk.node
                           /\ mk2.image = mk.image
                           /\ mk2.nbd = mk.nbd
                           /\ mk2.ctable = mk.ctable])))

\* the console.assert calls of one border start whose condition is false:
\* coordsToIndex(...this.lnbd), the polarity check of a truthy parent,
\* id > 0, and the cursor check of makeContourTrace
FailedAsserts(ln, parent, isHole, mk) ==
    (IF ln[1] > 0 /\ ln[1] < width /\ ln[2] > 0 /\ ln[2] < height
     THEN {} ELSE {"coordsToIndex"})
    \cup (IF parent \notin {Null, 0} /\ TreeGet(tree, parent).isHole = isHole
          THEN {"polarity"} ELSE {})
    \cup (IF mk.node > 0 THEN {} ELSE {"id"})
    \cup (IF mk.cursorOk THEN {} ELSE {"cursor"})

\* an iteration of the cell loop that starts a border at cursor c
StartBorder(c, isHole) ==
    \E ln \in {IF isHole /\ BitAnd(prev, MASK8_FLAGS) # 0
               THEN <<c.x - 1, lnbd[2]>>
               ELSE lnbd} :
    \E found \in {findFirstBoundingContour(
                    image, width, tree, ctable, ln, y,
                    BitAnd(ToInt32(ImgAt(image, ceCoordsToIndex(ln[1], ln[2], width))),
                           MASK8_LVAL))} :
    \E parent \in {ChooseParent(tree, found, isHole)} :
    \E start \in {<<c.x - (IF isHole THEN 1 ELSE 0), y>>} :
    \E mk \in {makeContour(image, width, nbd, tree, ctable, opts, isHole, start)} :
    \E ac \in {IF parent \in {Null, TypeErr, Hang}
               THEN [tree |-> mk.tree, returns |-> TRUE]
               ELSE addChild(mk.tree, parent, mk.node)} :
        /\ IF parent = TypeErr
           THEN /\ pc' = "threw"
                /\ lnbd' = ln
                /\ UNCHANGED <<image, nbd, ctable, tree, x, prev, twin, failed>>
           ELSE IF parent = Hang \/ mk.hangs \/ ~ac.returns
           THEN /\ pc' = "hang"
                /\ lnbd' = ln
                /\ UNCHANGED <<image, nbd, ctable, tree, x, prev, twin, failed>>
           ELSE /\ lnbd' = <<start[1], ln[2]>>
                /\ failed' = failed \cup FailedAsserts(ln, parent, isHole, mk)
                /\ twin' = TwinBorder(ln, start, isHole, parent, mk)
                /\ image' = mk.image
                /\ nbd' = mk.nbd
                /\ ctable' = mk.ctable
                /\ tree' = ac.tree
                /\ prev' = ImgAt(mk.image, y * width + c.x)
                /\ x' = c.x + 1
                /\ pc' = pc
        /\ UNCHANGED <<bm, width, height, opts, y, call, thinned, log, skel>>

\* an iteration of the cell loop at a background-to-foreground edge
StartOuter ==
    /\ pc = "cell"
    /\ x < width - 1
    /\ \E c \in {Cursor} :
         /\ c.x < width
         /\ IsOuterStart(prev, c.current)
         /\ StartBorder(c, FALSE)

\* an iteration of the cell loop at a foreground-to-background edge
StartHole ==
    /\ pc = "cell"
    /\ x < width - 1
    /\ \E c \in {Cursor} :
         /\ c.x < width
         /\ IsHoleStart(prev, c.current)
         /\ StartBorder(c, TRUE)

Next ==
    \/ FromBitmap
    \/ RowStart
    \/ RowEnd
    \/ CellSkip
    \/ StartOuter
    \/ StartHole
    \/ ScanDone

Spec == Init /\ [][Next]_vars

----------------------------------------------------------------------------
(* The Bitmap API as a state machine: calls on one bitmap *)

extractorVars == <<image, width, height, opts, lnbd, nbd, ctable, x, y, prev>>

\* no extraction under way
ExtractorIdle ==
    /\ image = <<>>
    /\ width = 0
    /\ height = 0
    /\ opts = ApproxNone
    /\ lnbd = <<0, 1>>
    /\ nbd = 2
    /\ ctable = <<>>
    /\ x = 0
    /\ y = 0
    /\ prev = 0

\* the coordinates tried on bitmap b
CoordsTried(b) ==
    (-MaxOut .. b.width - 1 + MaxOut) \X (-MaxOut .. b.height - 1 + MaxOut)

BoolInt(v) == IF v THEN 1 ELSE 0

\* what a call without a return value gives: undefined, or the RangeError
\* coordsToIndex throws
Completion(i) == IF i = RangeError THEN RangeError ELSE Undefined

InitBitmap ==
    /\ \E w, h \in 1 .. MaxSide : bm = BitmapCreate(w, h)
    /\ ExtractorIdle
    /\ tree = TreeCreate(DefaultCapacity)
    /\ pc = "bitmap"
    /\ call = NoCall
    /\ thinned = <<>>
    /\ log = NoLog
    /\ twin = NoTwin
    /\ skel = NoSkel
    /\ failed = {}

\* bm.set(x, y, v)
BmSet ==
    /\ pc = "bitmap"
    /\ call.seq < MaxOps
    /\ \E c \in CoordsTried(bm), v \in BOOLEAN :
         /\ bm' = set(bm, c[1], c[2], v)
         /\ call' = [op |-> "set", args |-> <<c[1], c[2], v>>,
                     ret |-> Completion(coordsToIndex(bm, c[1], c[2])),
                     pre |-> bm, seq |-> call.seq + 1]
    /\ pc' = "returned"
    /\ UNCHANGED <<extractorVars, tree, thinned, log, twin, skel, failed>>

\* bm.toggle(x, y)
BmToggle ==
    /\ pc = "bitmap"
    /\ call.seq < MaxOps
    /\ \E c \in CoordsTried(bm) :
         /\ bm' = toggle(bm, c[1], c[2])
         /\ call' = [op |-> "toggle", args |-> c,
                     ret |-> Completion(coordsToIndex(bm, c[1], c[2])),
                     pre |-> bm, seq |-> call.seq + 1]
    /\ pc' = "returned"
    /\ UNCHANGED <<extractorVars, tree, thinned, log, twin, skel, failed>>

\* bm.setByIndex(i, v) on an index of the bitmap
BmSetByIndex ==
    /\ pc = "bitmap"
    /\ call.seq < MaxOps
    /\ \E i \in 0 .. bm.width * bm.height - 1, v \in BOOLEAN :
         /\ bm' = setByIndex(bm, i, v)
         /\ call' = [op |-> "setByIndex", args |-> <<i, v>>,
                     ret |-> Undefined, pre |-> bm, seq |-> call.seq + 1]
    /\ pc' = "returned"
    /\ UNCHANGED <<extractorVars, tree, thinned, log, twin, skel, failed>>

\* bm.get(x, y)
BmGet ==
    /\ pc = "bitmap"
    /\ \E c \in CoordsTried(bm) :
         call' = [op |-> "get", args |-> c, ret |-> get(bm, c[1], c[2]),
                  pre |-> bm, seq |-> call.seq]
    /\ pc' = "returned"
    /\ UNCHANGED <<bm, extractorVars, tree, thinned, log, twin, skel, failed>>

\* bm.coordsToIndex(x, y)
BmCoordsToIndex ==
    /\ pc = "bitmap"
    /\ \E c \in CoordsTried(bm) :
         call' = [op |-> "coordsToIndex", args |-> c,
                  ret |-> coordsToIndex(bm, c[1], c[2]),
                  pre |-> bm, seq |-> call.seq]
    /\ pc' = "returned"
    /\ UNCHANGED <<bm, extractorVars, tree, thinned, log, twin, skel, failed>>

\* bm.bounds(x, y)
BmBounds ==
    /\ pc = "bitmap"
    /\ \E c \in CoordsTried(bm) :
         call' = [op |-> "bounds", args |-> c,
                  ret |-> BoolInt(bounds(bm, c[1], c[2])),
                  pre |-> bm, seq |-> call.seq]
    /\ pc' = "returned"
    /\ UNCHANGED <<bm, extractorVars, tree, thinned, log, twin, skel, failed>>

\* the caller takes the result and goes on
BmReturn ==
    /\ pc = "returned"
    /\ pc' = "bitmap"
    /\ call' = [op |-> "none", seq |-> call.seq]
    /\ UNCHANGED <<bm, extractorVars, tree, thinned, log, twin, skel, failed>>

NextBitmap ==
    \/ BmSet
    \/ BmToggle
    \/ BmSetByIndex
    \/ BmGet
    \/ BmCoordsToIndex
    \/ BmBounds
    \/ BmReturn

SpecBitmap == InitBitmap /\ [][NextBitmap]_vars

----------------------------------------------------------------------------
(* Bitmap.fromUnit8array on a buffer of any length *)

\* the byte values tried in a buffer
ByteValues == {0, 1, 255}

\* the buffers of at most MaxBytes bytes
Buffers == UNION {[0 .. n - 1 -> ByteValues] : n \in 0 .. MaxBytes}

InitFromBytes ==
    /\ bm = <<>>
    /\ ExtractorIdle
    /\ tree = TreeCreate(DefaultCapacity)
    /\ pc = "construct"
    /\ \E w, h \in 1 .. MaxSide, data \in Buffers :
         call = [op |-> "fromUnit8array", args |-> <<w, h, data>>, seq |-> 0]
    /\ thinned = <<>>
    /\ log = NoLog
    /\ twin = NoTwin
    /\ skel = NoSkel
    /\ failed = {}

\* Bitmap.fromUnit8array(w, h, data): it returns the bitmap, no path throws
BmFromUnit8array ==
    /\ pc = "construct"
    /\ bm' = fromUnit8array(call.args[1], call.args[2], call.args[3])
    /\ pc' = "built"
    /\ UNCHANGED <<extractorVars, tree, call, thinned, log, twin, skel, failed>>

\* bm.get(x, y) on the bitmap built
BmGetBuilt ==
    /\ pc = "built"
    /\ \E c \in Grid(bm.width, bm.height) :
         call' = [op |-> "get", args |-> c, ret |-> get(bm, c[1], c[2]),
                  pre |-> bm, seq |-> call.seq]
    /\ pc' = "read"
    /\ UNCHANGED <<bm, extractorVars, tree, thinned, log, twin, skel, failed>>

NextFromBytes ==
    \/ BmFromUnit8array
    \/ BmGetBuilt

SpecFromBytes == InitFromBytes /\ [][NextFromBytes]_vars

----------------------------------------------------------------------------
(* toSkeleton: the Voronoi diagram is outside the program, its polygon
   vertices are arbitrary points of the rectangle [0, W] x [0, H] *)

\* one filled rectangle in a square grid of MaxSkelSide cells a side
SkelBitmaps ==
    {fromBooleanMatrix(MaxSkelSide, MaxSkelSide,
                       RectCells(q[1][1], q[1][2], q[2][1], q[2][2])) :
       q \in Spans(MaxSkelSide) \X Spans(MaxSkelSide)}

\* the coordinates tried along an axis of n cells, in hundredths: both ends,
\* the half-integers next to them, and a value that rounds to n
AxisTried(n) == {0, 50, 100 * n - 50, 100 * n - 25, 100 * n}

VerticesTried(b) == AxisTried(b.width) \X AxisTried(b.height)

InitSkeleton ==
    /\ bm \in SkelBitmaps
    /\ ExtractorIdle
    /\ tree = TreeCreate(DefaultCapacity)
    /\ pc = "skeleton"
    /\ call = NoCall
    /\ thinned = <<>>
    /\ log = NoLog
    /\ twin = NoTwin
    /\ skel = NoSkel
    /\ failed = {}

\* one turn of the inner loop of toSkeleton: the next vertex of the polygon
\* of some boundary point's cell
SkelStep ==
    /\ pc = "skeleton"
    /\ Len(boundaryPoints(bm)) > 0
    /\ skel.n < MaxVertices
    /\ \E p \in VerticesTried(bm) :
         skel' = [SkelVertex(bm, skel, p) EXCEPT !.n = @ + 1]
    /\ UNCHANGED <<bm, extractorVars, tree, pc, call, thinned, log, twin, failed>>

\* the loops end and toSkeleton returns medialEdges
SkelReturn ==
    /\ pc = "skeleton"
    /\ pc' = "returned"
    /\ UNCHANGED <<bm, extractorVars, tree, call, thinned, log, twin, skel, failed>>

NextSkeleton ==
    \/ SkelStep
    \/ SkelReturn

SpecSkeleton == InitSkeleton /\ [][NextSkeleton]_vars

----------------------------------------------------------------------------
(* thin() called on a bitmap, and again on its result *)

\* the bitmap b with a ring of clear cells around it
Padded(b) ==
    fromBooleanMatrix(b.width + 2, b.height + 2,
                      {<<c[1] + 1, c[2] + 1>> :
                         c \in {c \in Grid(b.width, b.height) :
                                  get(b, c[1], c[2]) = 1}})

\* a filled rectangle of at most MaxThinSide cells a side, whole or with one
\* cell cleared, inside a ring of clear cells
NotchedBitmaps ==
    UNION {{Padded(fromBooleanMatrix(d[1], d[2], Grid(d[1], d[2]) \ miss)) :
              miss \in {{}} \cup {{c} : c \in Grid(d[1], d[2])}} :
           d \in (1 .. MaxThinSide) \X (1 .. MaxThinSide)}

ThinInputs ==
    {Padded(b) : b \in SmallBitmaps} \cup RectBitmaps \cup HoleBitmaps
    \cup NotchedBitmaps

InitThin ==
    /\ bm \in ThinInputs
    /\ ExtractorIdle
    /\ tree = TreeCreate(DefaultCapacity)
    /\ pc = "thin"
    /\ call = NoCall
    /\ thinned = <<>>
    /\ log = NoLog
    /\ twin = NoTwin
    /\ skel = NoSkel
    /\ failed = {}

\* bm.thin()
ThinFirst ==
    /\ pc = "thin"
    /\ thinned = <<>>
    /\ thinned' = <<thin(bm)>>
    /\ UNCHANGED <<bm, extractorVars, tree, pc, call, log, twin, skel, failed>>

\* bm.thin().thin()
ThinAgain ==
    /\ pc = "thin"
    /\ Len(thinned) = 1
    /\ thinned' = Append(thinned, thin(thinned[1]))
    /\ UNCHANGED <<bm, extractorVars, tree, pc, call, log, twin, skel, failed>>

NextThin ==
    \/ ThinFirst
    \/ ThinAgain

SpecThin == InitThin /\ [][NextThin]_vars

----------------------------------------------------------------------------
(* The Tree API as a state machine: new() and addChild() on one tree *)

\* the payload of the node created next: one that tells the nodes apart
Payloads(t) == {100 + t.size}

\* the nodes passed to addChild as a child so far
AddedChildren == {log.adds[k][2] : k \in 1 .. Len(log.adds)}

InitTree ==
    /\ \E c \in 0 .. MaxInitCap : tree = TreeCreate(c)
    /\ bm = BitmapCreate(1, 1)
    /\ ExtractorIdle
    /\ pc = "tree"
    /\ call = NoCall
    /\ thinned = <<>>
    /\ log = NoLog
    /\ twin = NoTwin
    /\ skel = NoSkel
    /\ failed = {}

\* tree.new(body)
TNew ==
    /\ pc = "tree"
    /\ tree.size < MaxNodes
    /\ \E body \in Payloads(tree) :
         /\ tree' = TreeNew(tree, body)
         /\ call' = [op |-> "new", args |-> <<body>>, ret |-> tree.size,
                     pre |-> tree, seq |-> call.seq + 1]
    /\ log' = [log EXCEPT !.news = @ + 1]
    /\ UNCHANGED <<bm, extractorVars, pc, thinned, twin, skel, failed>>

\* tree.addChild(p, c) for nodes p and c, c not passed as a child before
TAddChild ==
    /\ pc = "tree"
    /\ \E p \in 0 .. tree.size - 1, c \in (0 .. tree.size - 1) \ AddedChildren :
         \E ac \in {addChild(tree, p, c)} :
           /\ tree' = ac.tree
           /\ pc' = IF ac.returns THEN pc ELSE "hang"
           /\ call' = [op |-> "addChild", args |-> <<p, c>>,
                       ret |-> IF ac.returns THEN Undefined ELSE Hang,
                       pre |-> tree, seq |-> call.seq + 1]
           /\ log' = [log EXCEPT !.adds = Append(@, <<p, c>>)]
    /\ UNCHANGED <<bm, extractorVars, thinned, twin, skel, failed>>

NextTree ==
    \/ TNew
    \/ TAddChild

SpecTree == InitTree /\ [][NextTree]_vars

----------------------------------------------------------------------------
(* The result of an extraction *)

\* the set cells of a bitmap
SetCells(b) == {c \in Grid(b.width, b.height) : get(b, c[1], c[2]) = 1}

Nodes == 0 .. tree.size - 1

Node(n) == TreeGet(tree, n)

MinOf(S) == CHOOSE m \in S : \A k \in S : m <= k
MaxOf(S) == CHOOSE m \in S : \A k \in S : m >= k

\* the smallest rectangle <<x0, x1, y0, y1>> holding the non-empty cell set S
Hull(S) ==
    <<MinOf({c[1] : c \in S}), MaxOf({c[1] : c \in S}),
      MinOf({c[2] : c \in S}), MaxOf({c[2] : c \in S})>>

HullCells(S) == RectCells(Hull(S)[1], Hull(S)[2], Hull(S)[3], Hull(S)[4])

Corners(x0, x1, y0, y1) == <<<<x0, y0>>, <<x1, y0>>, <<x1, y1>>, <<x0, y1>>>>

----------------------------------------------------------------------------
(* Claims *)

\* C1: in the tree extractContours returns, every contour that has a parent
\* is of the other kind than its parent (isHole differs).
C1_HierarchyInvariant ==
    pc = "done" =>
      \A n \in Nodes :
        getParent(tree, n) # Null =>
          Node(n).isHole # Node(getParent(tree, n)).isHole

\* C2: two 2x2 blocks, disjoint and not 8-adjacent, in an otherwise empty
\* BlockGrid x BlockGrid bitmap give, in Simple mode, exactly two roots, both
\* outer contours holding the 4 corners of a block each, and neither is the
\* parent of the other.
C2_TwoBlocksTwoRoots ==
    (pc = "done" /\ opts = ApproxSimple /\ bm \in BlockBitmaps) =>
      \E a, b \in Grid(BlockGrid - 1, BlockGrid - 1) :
        /\ SetCells(bm) = Block(a) \cup Block(b)
        /\ tree.size = 2
        /\ getRoots(tree) = <<0, 1>>
        /\ \A n \in Nodes :
             /\ ~Node(n).isHole
             /\ getParent(tree, n) = Null
             /\ children(tree, n) = [seq |-> <<>>, ends |-> TRUE]
        /\ {Node(0).points, Node(1).points}
             = {Corners(a[1], a[1] + 1, a[2], a[2] + 1),
                Corners(b[1], b[1] + 1, b[2], b[2] + 1)}

\* C3: a bitmap whose only set cell is (cx, cy) gives, in either mode, a tree
\* of exactly one node: a root, not a hole, points [[cx, cy]], bounding box
\* [cx + 1, cy + 1, 1, 1], no children.
C3_SinglePixel ==
    \A c \in Grid(bm.width, bm.height) :
      (pc = "done" /\ SetCells(bm) = {c}) =>
        /\ tree.size = 1
        /\ getRoots(tree) = <<0>>
        /\ getParent(tree, 0) = Null
        /\ ~Node(0).isHole
        /\ Node(0).points = <<c>>
        /\ Node(0).boundingBox = <<c[1] + 1, c[2] + 1, 1, 1>>
        /\ children(tree, 0) = [seq |-> <<>>, ends |-> TRUE]

C3_Witness ==
    /\ pc = "done"
    /\ opts = ApproxNone
    /\ bm.width = 3 /\ bm.height = 2
    /\ SetCells(bm) = {<<2, 1>>}
    /\ tree.size = 1

\* the set cells are one filled rectangle more than one cell wide and high
IsFilledRect(S) ==
    /\ S # {}
    /\ S = HullCells(S)
    /\ Hull(S)[2] > Hull(S)[1]
    /\ Hull(S)[4] > Hull(S)[3]

\* C4: a bitmap whose set cells are exactly the rectangle x0..x1 by y0..y1,
\* x1 > x0 and y1 > y0, gives in Simple mode one root, not a hole, with the
\* points [[x0,y0],[x1,y0],[x1,y1],[x0,y1]] and the bounding box
\* [x0 + 1, y0 + 1, x1 - x0 + 1, y1 - y0 + 1].
C4_FilledRectangle ==
    (pc = "done" /\ opts = ApproxSimple /\ IsFilledRect(SetCells(bm))) =>
      \E r \in {Hull(SetCells(bm))} :
        /\ tree.size = 1
        /\ getRoots(tree) = <<0>>
        /\ ~Node(0).isHole
        /\ Node(0).points = Corners(r[1], r[2], r[3], r[4])
        /\ Node(0).boundingBox
             = <<r[1] + 1, r[3] + 1, r[2] - r[1] + 1, r[4] - r[3] + 1>>

C4_Witness ==
    /\ pc = "done"
    /\ opts = ApproxSimple
    /\ bm.width = MaxGrid /\ bm.height = MaxGrid
    /\ SetCells(bm) = RectCells(1, 3, 0, 2)
    /\ tree.size = 1

\* the set cells are one filled rectangle less one rectangular hole of at
\* least 2x2 cells strictly inside it
IsRectWithHole(S) ==
    /\ S # {}
    /\ HullCells(S) \ S # {}
    /\ \E m \in {HullCells(S) \ S} :
         /\ m = HullCells(m)
         /\ Hull(m)[1] > Hull(S)[1] /\ Hull(m)[2] < Hull(S)[2]
         /\ Hull(m)[3] > Hull(S)[3] /\ Hull(m)[4] < Hull(S)[4]
         /\ Hull(m)[2] > Hull(m)[1]
         /\ Hull(m)[4] > Hull(m)[3]

\* the points C5 gives for the hole hx0..hx1 by hy0..hy1
HolePoints(hx0, hx1, hy0, hy1) ==
    <<<<hx0 - 1, hy0>>, <<hx0 - 1, hy1>>, <<hx0, hy1 + 1>>, <<hx1, hy1 + 1>>,
      <<hx1 + 1, hy1>>, <<hx1 + 1, hy0>>, <<hx1, hy0 - 1>>, <<hx0, hy0 - 1>>>>

\* C5: a filled rectangle with one rectangular hole hx0..hx1 by hy0..hy1
\* (at least 2x2) strictly inside gives in Simple mode one root, not a hole,
\* with exactly one child; the child is a hole, has no children, and its
\* points are HolePoints(hx0, hx1, hy0, hy1).
C5_RectangleWithHole ==
    (pc = "done" /\ opts = ApproxSimple /\ IsRectWithHole(SetCells(bm))) =>
      \E h \in {Hull(HullCells(SetCells(bm)) \ SetCells(bm))} :
        /\ tree.size = 2
        /\ getRoots(tree) = <<0>>
        /\ ~Node(0).isHole
        /\ children(tree, 0) = [seq |-> <<1>>, ends |-> TRUE]
        /\ getParent(tree, 1) = 0
        /\ Node(1).isHole
        /\ children(tree, 1) = [seq |-> <<>>, ends |-> TRUE]
        /\ Node(1).points = HolePoints(h[1], h[2], h[3], h[4])

C5_Witness ==
    /\ pc = "done"
    /\ opts = ApproxSimple
    /\ bm.width = MaxHoleGrid /\ bm.height = MaxHoleGrid
    /\ SetCells(bm) = RectCells(0, 4, 1, 4) \ RectCells(1, 3, 2, 3)
    /\ tree.size = 2
    /\ Node(1).isHole

\* the cells of bitmap b other than cell c hold what they hold in bitmap a
SameElsewhere(a, b, c) ==
    \A d \in Grid(b.width, b.height) \ {c} :
      get(b, d[1], d[2]) = get(a, d[1], d[2])

\* C6: Bitmap.create(w, h) has every cell false; after any calls of set,
\* toggle and setByIndex, set(x, y, v) on a valid (x, y) makes get(x, y)
\* equal v and toggle(x, y) flips get(x, y), and either leaves the value of
\* every other cell as it was.
C6_SetToggleFrame ==
    /\ (pc = "bitmap" /\ call.seq = 0) =>
         \A c \in Grid(bm.width, bm.height) : get(bm, c[1], c[2]) = 0
    /\ (pc = "returned" /\ call.op = "set"
          /\ <<call.args[1], call.args[2]>> \in Grid(bm.width, bm.height)) =>
         /\ get(bm, call.args[1], call.args[2]) = BoolInt(call.args[3])
         /\ SameElsewhere(call.pre, bm, <<call.args[1], call.args[2]>>)
    /\ (pc = "returned" /\ call.op = "toggle"
          /\ call.args \in Grid(bm.width, bm.height)) =>
         /\ get(bm, call.args[1], call.args[2])
              = 1 - get(call.pre, call.args[1], call.args[2])
         /\ SameElsewhere(call.pre, bm, call.args)

C6_Witness ==
    /\ pc = "returned"
    /\ call.op = "toggle"
    /\ bm.width = 3 /\ bm.height = 3
    /\ call.args = <<2, 2>>
    /\ get(call.pre, 1, 2) = 1
    /\ get(bm, 1, 2) = 1
    /\ get(bm, 2, 2) = 1

\* C7: on coordinates outside 0 <= x < W, 0 <= y < H, get, set, toggle and
\* coordsToIndex throw a RangeError and leave every cell of the bitmap as it
\* was; bounds never throws, and returns false exactly on those coordinates.
C7_OutOfRange ==
    /\ (pc = "returned" /\ call.op \in {"get", "toggle", "coordsToIndex"}
          /\ call.args \notin Grid(bm.width, bm.height)) =>
         /\ call.ret = RangeError
         /\ \A d \in Grid(bm.width, bm.height) :
              get(bm, d[1], d[2]) = get(call.pre, d[1], d[2])
    /\ (pc = "returned" /\ call.op = "set"
          /\ <<call.args[1], call.args[2]>> \notin Grid(bm.width, bm.height)) =>
         /\ call.ret = RangeError
         /\ \A d \in Grid(bm.width, bm.height) :
              get(bm, d[1], d[2]) = get(call.pre, d[1], d[2])
    /\ (pc = "returned" /\ call.op = "bounds") =>
         /\ call.ret # RangeError
         /\ (call.ret = 0) <=> (call.args \notin Grid(bm.width, bm.height))

C7_Witness ==
    /\ pc = "returned"
    /\ call.op = "set"
    /\ bm.width = 3 /\ bm.height = 2
    /\ call.args = <<3, 1, TRUE>>
    /\ call.ret = RangeError
    /\ get(bm, 2, 1) = 1

\* C8: thin(thin(b)) has exactly the cells of thin(b).
C8_ThinIdempotent ==
    (pc = "thin" /\ Len(thinned) = 2) =>
      /\ thinned[2].width = thinned[1].width
      /\ thinned[2].height = thinned[1].height
      /\ SetCells(thinned[2]) = SetCells(thinned[1])

C8_Witness ==
    /\ pc = "thin"
    /\ Len(thinned) = 2
    /\ SetCells(thinned[1]) # {}
    /\ SetCells(thinned[1]) # SetCells(bm)
    /\ SetCells(thinned[2]) = SetCells(thinned[1])

\* C9: whatever the initial capacity, the k-th call of new() returns handle
\* k - 1; the new node reads getParent = getFirstChild = getNextSibling =
\* null and is among getRoots(); the payload and the three links of every
\* node created before are as they were.
C9_NewAppendsDetachedNode ==
    (pc = "tree" /\ call.op = "new") =>
      /\ call.ret = log.news - 1
      /\ getParent(tree, call.ret) = Null
      /\ getFirstChild(tree, call.ret) = Null
      /\ getNextSibling(tree, call.ret) = Null
      /\ \E k \in 1 .. Len(getRoots(tree)) : getRoots(tree)[k] = call.ret
      /\ \A n \in 0 .. call.ret - 1 :
           /\ TreeGet(tree, n) = TreeGet(call.pre, n)
           /\ getParent(tree, n) = getParent(call.pre, n)
           /\ getFirstChild(tree, n) = getFirstChild(call.pre, n)
           /\ getNextSibling(tree, n) = getNextSibling(call.pre, n)

\* the nodes added under p, in the order of their addChild calls
AddedUnder(p) ==
    LET mine == SelectSeq(log.adds, LAMBDA a : a[1] = p)
    IN  [k \in 1 .. Len(mine) |-> mine[k][2]]

\* C10: after any calls of new() and addChild(p, c), each c passed as a child
\* once, children(p) yields exactly the nodes added under p in the order of
\* their addChild calls, and getParent(c) = p for each of them.
C10_AddChildAppendsAtTail ==
    pc = "tree" =>
      /\ \A p \in Nodes :
           children(tree, p) = [seq |-> AddedUnder(p), ends |-> TRUE]
      /\ \A k \in 1 .. Len(log.adds) :
           getParent(tree, log.adds[k][2]) = log.adds[k][1]

\* C11: fromUnit8array(w, h, bytes) fails whenever bytes.length differs from
\* ceil(w * h / 8) and succeeds when it is equal: a bitmap it has built has a
\* buffer of exactly ceil(w * h / 8) bytes.
C11_FromBytesLength ==
    pc = "built" =>
      Cardinality(DOMAIN bm.data) = CeilDiv8(bm.width * bm.height)

\* the trees of the None-mode and of the Simple-mode extraction of bm
NoneTree == IF opts = ApproxNone THEN tree ELSE twin.tree
SimpleTree == IF opts = ApproxSimple THEN tree ELSE twin.tree

\* the step from point p to point q
StepDir(p, q) == <<q[1] - p[1], q[2] - p[2]>>

\* the indices of the closed point list ps at which the step leaving the
\* point differs from the step that entered it
TurnIndices(ps) ==
    LET n == Len(ps)
        at(i) == ps[((i - 1) % n) + 1]
    IN  {i \in 1 .. n : StepDir(at(i), at(i + 1)) # StepDir(at(i - 1), at(i))}

\* the subsequence of ps at the indices K
SubSeqAt(ps, K) ==
    [k \in 1 .. Cardinality(K) |->
       ps[CHOOSE i \in K : Cardinality({j \in K : j < i}) = k - 1]]

\* the two trees have the same nodes, links, isHole flags and bounding boxes
SameShape(a, b) ==
    /\ a.size = b.size
    /\ \A n \in 0 .. a.size - 1 :
         /\ getParent(a, n) = getParent(b, n)
         /\ getFirstChild(a, n) = getFirstChild(b, n)
         /\ getNextSibling(a, n) = getNextSibling(b, n)
         /\ TreeGet(a, n).isHole = TreeGet(b, n).isHole
         /\ TreeGet(a, n).boundingBox = TreeGet(b, n).boundingBox

\* C12 (as stated): None mode and Simple mode give trees with the same nodes,
\* parent links, isHole flags and bounding boxes, and every Simple-mode point
\* list is the subsequence of the None-mode point list at the points where
\* the step leaving differs from the step that entered (cyclically).
C12_SimpleIsTurnsOfNone ==
    pc = "done" =>
      /\ twin.sync
      /\ SameShape(NoneTree, SimpleTree)
      /\ \A n \in Nodes :
           TreeGet(SimpleTree, n).points
             = SubSeqAt(TreeGet(NoneTree, n).points,
                        TurnIndices(TreeGet(NoneTree, n).points))

\* C12 (amended): as C12, for every contour of more than one point; a
\* contour of one point (an isolated pixel, which no step leaves) has that
\* one point in both modes.
C12_SimpleIsTurnsOfNoneBeyondOnePoint ==
    pc = "done" =>
      /\ twin.sync
      /\ SameShape(NoneTree, SimpleTree)
      /\ \A n \in Nodes :
           TreeGet(SimpleTree, n).points
             = IF Len(TreeGet(NoneTree, n).points) = 1
               THEN TreeGet(NoneTree, n).points
               ELSE SubSeqAt(TreeGet(NoneTree, n).points,
                             TurnIndices(TreeGet(NoneTree, n).points))

C12_Witness ==
    /\ pc = "done"
    /\ tree.size = 2
    /\ Len(TreeGet(NoneTree, 0).points) > Len(TreeGet(SimpleTree, 0).points)
    /\ Len(TreeGet(SimpleTree, 0).points) > 1
    /\ TreeGet(NoneTree, 1).isHole

\* the image fromBitmap has just built is the padded copy of bm
PaddedCopy ==
    (pc = "row" /\ y = 1) =>
      /\ width = bm.width + 2
      /\ height = bm.height + 2
      /\ DOMAIN image = 0 .. width * height - 1
      /\ \A c \in Grid(width, height) :
           image[c[2] * width + c[1]]
             = IF /\ <<c[1] - 1, c[2] - 1>> \in Grid(bm.width, bm.height)
                  /\ get(bm, c[1] - 1, c[2] - 1) = 1
               THEN 1 ELSE 0

\* C13: fromBitmap(b) builds a (W+2)x(H+2) grid whose cell (x+1, y+1) is 1
\* exactly when b.get(x, y) is true and whose outer ring is 0, and no step of
\* fromBitmap or extractContours changes a cell of the source bitmap b.
C13_PaddedCopyOwned ==
    /\ []PaddedCopy
    /\ [][\A c \in Grid(bm.width, bm.height) :
            get(bm', c[1], c[2]) = get(bm, c[1], c[2])]_vars

C13_Witness ==
    /\ pc = "done"
    /\ bm.width = 3 /\ bm.height = 2
    /\ SetCells(bm) = {<<0, 0>>, <<2, 1>>}
    /\ image[width + 1] # 1
    /\ tree.size = 2

\* C14: every point toSkeleton returns lies in 0 <= x < W, 0 <= y < H, has a
\* set cell among the cells its probes can reach (within 0.51 of it along
\* each axis), and is returned once only.
C14_SkeletonPoints ==
    pc = "returned" =>
        \A k \in 1 .. Len(skel.medialEdges) :
            LET p == skel.medialEdges[k]
            IN  /\ 0 <= p[1] /\ p[1] < 100 * bm.width
                /\ 0 <= p[2] /\ p[2] < 100 * bm.height
                /\ \E c \in SetCells(bm) :
                     /\ 100 * c[1] - 51 <= p[1] /\ p[1] <= 100 * c[1] + 51
                     /\ 100 * c[2] - 51 <= p[2] /\ p[2] <= 100 * c[2] + 51
                /\ \A j \in 1 .. k - 1 : skel.medialEdges[j] # p

\* a vertex on a half-integer was kept and a second vertex was dropped
C14_Witness ==
    /\ pc = "returned"
    /\ skel.n = 2
    /\ Len(skel.medialEdges) = 1
    /\ hasHalfFraction(skel.medialEdges[1][1])
    /\ Cardinality(SetCells(bm)) < bm.width * bm.height

\* the 8-neighbours of the cells of S, and S
Around8(S) ==
    UNION {(d[1] - 1 .. d[1] + 1) \X (d[2] - 1 .. d[2] + 1) : d \in S}

\* the 4-neighbours of the cells of S, and S
Around4(S) ==
    UNION {{d, <<d[1] - 1, d[2]>>, <<d[1] + 1, d[2]>>,
               <<d[1], d[2] - 1>>, <<d[1], d[2] + 1>>} : d \in S}

\* the cells of `cells` joined to S by steps between 8-neighbours
RECURSIVE Flood8(_, _)
Flood8(S, cells) ==
    Strict(Around8(S) \cap cells,
           LAMBDA T : IF T = S THEN S ELSE Flood8(T, cells))

\* the cells of `cells` joined to S by steps between 4-neighbours
RECURSIVE Flood4(_, _)
Flood4(S, cells) ==
    Strict(Around4(S) \cap cells,
           LAMBDA T : IF T = S THEN S ELSE Flood4(T, cells))

\* the maximal 8-connected components of the set cells of b
Components(b) ==
    Strict(SetCells(b), LAMBDA cells : {Flood8({c}, cells) : c \in cells})

\* the clear cells of b and of a ring of cells around it
ClearCells(b) == ((-1 .. b.width) \X (-1 .. b.height)) \ SetCells(b)

\* the holes of b: the maximal 4-connected regions of clear cells that are
\* not joined to the outside
HolesOf(b) ==
    Strict(ClearCells(b), LAMBDA clear :
      Strict(clear \ Flood4({<<-1, -1>>}, clear), LAMBDA inner :
        {Flood4({c}, inner) : c \in inner}))

\* the cells a point of a sequence of points lies on
PointSet(pts) == {pts[k] : k \in 1 .. Len(pts)}

\* the set cells next to a cell of the region H (8-neighbours)
Rim(b, H) == Around8(H) \cap SetCells(b)

\* the non-hole contours that run on the component K
OutersOn(K) ==
    {n \in Nodes : ~Node(n).isHole /\ PointSet(Node(n).points) \subseteq K
                   /\ Node(n).points # <<>>}

\* the hole contours that run on the rim of the hole H
HolesOn(H) ==
    {n \in Nodes : Node(n).isHole /\ PointSet(Node(n).points) \subseteq Rim(bm, H)
                   /\ Node(n).points # <<>>}

\* C15: the tree returned holds exactly one non-hole contour for each maximal
\* 8-connected component of set cells, exactly one hole contour for each
\* hole, and no other node; with no set cell it holds no node.
C15_OneContourPerRegion ==
    pc = "done" =>
        \A Ks \in {Components(bm)} : \A Hs \in {HolesOf(bm)} :
            /\ \A K \in Ks : Cardinality(OutersOn(K)) = 1
            /\ \A H \in Hs : Cardinality(HolesOn(H)) = 1
            /\ Cardinality({n \in Nodes : ~Node(n).isHole}) = Cardinality(Ks)
            /\ Cardinality({n \in Nodes : Node(n).isHole}) = Cardinality(Hs)

\* a component around two holes of different sizes
C15_Witness ==
    /\ pc = "done"
    /\ Cardinality(Components(bm)) = 1
    /\ {Cardinality(H) : H \in HolesOf(bm)} = {1, 3}
    /\ tree.size = 3

\* the first cell of the region K in raster order
FirstCell(K) ==
    CHOOSE c \in K : \A d \in K : c[2] < d[2] \/ (c[2] = d[2] /\ c[1] <= d[1])

\* the clear cell above the first cell of the component K: it lies in the
\* clear region that surrounds K
Above(K) == <<FirstCell(K)[1], FirstCell(K)[2] - 1>>

\* the members of a sequence
Range(q) == {q[k] : k \in 1 .. Len(q)}

\* C16: in the tree returned, the parent of a hole contour is the outer
\* contour of the component around the hole; the parent of an outer contour
\* is the hole contour of the hole its component lies in, and it has no
\* parent when its component lies in no hole; getRoots() is exactly the
\* outer contours of the components that lie in no hole.
C16_TopologicalParents ==
    pc = "done" =>
        \A Ks \in {Components(bm)} : \A Hs \in {HolesOf(bm)} :
            /\ \A H \in Hs : \A n \in HolesOn(H) :
                 \E K \in Ks : /\ Rim(bm, H) \subseteq K
                               /\ getParent(tree, n) \in OutersOn(K)
            /\ \A K \in Ks : \A n \in OutersOn(K) :
                 IF \E H \in Hs : Above(K) \in H
                 THEN \E H \in Hs : /\ Above(K) \in H
                                    /\ getParent(tree, n) \in HolesOn(H)
                 ELSE getParent(tree, n) = Null
            /\ Range(getRoots(tree))
                 = UNION {OutersOn(K) :
                            K \in {K \in Ks : \A H \in Hs : Above(K) \notin H}}

\* the shoelace sum of the closed polygon through pts:
\* the sum of x_i * y_(i+1) - x_(i+1) * y_i, the last point joined to the first
Shoelace(pts) ==
    LET n == Len(pts)
        nxt(k) == pts[(k % n) + 1]
        F[k \in 0 .. n] ==
            IF k = 0 THEN 0
            ELSE F[k - 1] + pts[k][1] * nxt(k)[2] - nxt(k)[1] * pts[k][2]
    IN  F[n]

\* C17: with y growing downward, the shoelace sum of the points of an outer
\* contour is >= 0 and that of a hole contour is <= 0, in either mode.
C17_TraceOrientation ==
    (pc = "done" /\ twin.sync) =>
        \A t \in {NoneTree, SimpleTree} : \A n \in 0 .. t.size - 1 :
            IF TreeGet(t, n).isHole
            THEN Shoelace(TreeGet(t, n).points) <= 0
            ELSE Shoelace(TreeGet(t, n).points) >= 0

\* an outer contour and a hole contour that both enclose area
C17_Witness ==
    /\ pc = "done" /\ twin.sync
    /\ \E n \in Nodes : ~Node(n).isHole /\ Shoelace(Node(n).points) > 0
    /\ \E n \in Nodes : Node(n).isHole /\ Shoelace(Node(n).points) < 0
    /\ \E n \in 0 .. SimpleTree.size - 1 :
         Shoelace(TreeGet(SimpleTree, n).points) < 0

\* the signed 8-bit value v has a bit other than bit 0 set (v & 0xfe # 0)
CarriesFlags(v) == ((v % 256) \div 2) # 0

\* the scan is at a cell it examines: the cell the cursor stops on after the
\* run of equal values
AtScannedCell == pc = "cell" /\ x < width - 1 /\ Cursor.x < width

\* the step starts a border: a contour is added to the tree
BorderStarted == tree'.size > tree.size

\* C18 as stated: a border is started at a scanned cell exactly when prev is
\* 0 and the cell is 1 (outer), or prev carries flag bits and the cell is 0
\* (hole).
C18_StartIffFlagged ==
    [][AtScannedCell =>
         (BorderStarted <=>
            \/ prev = 0 /\ Cursor.current = 1
            \/ CarriesFlags(prev) /\ Cursor.current = 0)]_vars

\* C18 amended: a border is started at a scanned cell exactly when prev is 0
\* and the cell is 1 (an outer border), or prev, a signed 8-bit value, is at
\* least 1 and the cell is 0 (a hole border); the contour added is a hole
\* contour in the second case only.
C18_StartIffPositive ==
    [][AtScannedCell =>
         /\ BorderStarted <=>
              \/ prev = 0 /\ Cursor.current = 1
              \/ prev >= 1 /\ Cursor.current = 0
         /\ BorderStarted =>
              (TreeGet(tree', tree.size).isHole <=> Cursor.current = 0)]_vars

\* a hole border was just started from a cell no outer border runs through
\* (prev was the unvisited foreground 1), and the scan now sits after a cell
\* with the right flag and before a clear cell, where it starts nothing
C18_Witness ==
    /\ pc = "cell"
    /\ tree.size >= 2
    /\ Node(tree.size - 1).isHole
    /\ \A n \in 0 .. tree.size - 2 :
         Node(tree.size - 1).points[1] \notin PointSet(Node(n).points)
    /\ \E n \in Nodes : Node(n).isHole /\ Node(n).origin[2] < y
    /\ AtScannedCell
    /\ prev < 0
    /\ Cursor.current = 0

\* the bounding box [x, y, w, h] of the points pts, moved by <<dx, dy>>
BoxOf(pts, dx, dy) ==
    LET h == Hull(PointSet(pts))
    IN  <<h[1] + dx, h[3] + dy, h[2] - h[1] + 1, h[4] - h[3] + 1>>

\* C19 as stated: the bounding box of every contour, in either mode, is
\* [minX, minY, maxX - minX + 1, maxY - minY + 1] over its None-mode points,
\* which are in the bitmap's coordinates.
C19_BoxInBitmapCoordinates ==
    (pc = "done" /\ twin.sync) =>
        \A t \in {NoneTree, SimpleTree} : \A n \in 0 .. t.size - 1 :
            TreeGet(t, n).boundingBox
                = BoxOf(TreeGet(NoneTree, n).points, 0, 0)

\* C19 amended: the bounding box of every contour, in either mode, is
\* [minX + 1, minY + 1, maxX - minX + 1, maxY - minY + 1] over its None-mode
\* points: its corner is in the coordinates of the padded grid.
C19_BoxInPaddedCoordinates ==
    (pc = "done" /\ twin.sync) =>
        \A t \in {NoneTree, SimpleTree} : \A n \in 0 .. t.size - 1 :
            TreeGet(t, n).boundingBox
                = BoxOf(TreeGet(NoneTree, n).points, 1, 1)

\* a hole contour whose box is wider than high and starts below the top row
C19_Witness ==
    /\ pc = "done" /\ twin.sync
    /\ \E n \in Nodes :
         /\ Node(n).isHole
         /\ Node(n).boundingBox[2] > 1
         /\ Node(n).boundingBox[3] > Node(n).boundingBox[4]
         /\ Node(n).boundingBox[4] > 1
         /\ Len(TreeGet(SimpleTree, n).points) < Len(TreeGet(NoneTree, n).points)

\* C20: no console.assert of the extractor has evaluated to false: the
\* polarity check, id > 0 on the new node, the coordinate preconditions of
\* coordsToIndex and the cursor check 0 < s < 15 of the trace.
C20_NoAssertionFails == failed = {}

\* the Zhang-Suen iteration of two sub-passes (the first, then the second,
\* each on the candidate cells of the scan and removing its marked cells
\* together), repeated until an iteration removes nothing
RECURSIVE TwoSubPasses(_)
TwoSubPasses(b) ==
    Strict(RemoveAll(b, toRemove(b, 0), 0), LAMBDA b1 :
      Strict(RemoveAll(b1, toRemove(b1, 1), 0), LAMBDA b2 :
        IF SetCells(b2) = SetCells(b) THEN b ELSE TwoSubPasses(b2)))

\* C22: thin(b) has exactly the cells left by the iteration of two sub-passes.
C22_ThinIsTwoSubPasses ==
    (pc = "thin" /\ Len(thinned) >= 1) =>
        SetCells(thinned[1]) = SetCells(TwoSubPasses(bm))


\* C23: thin(b) has no set cell that b has clear, and of every maximal
\* 8-connected component of b at least one cell is still set in thin(b).
C23_ThinKeepsComponents ==
    (pc = "thin" /\ Len(thinned) >= 1) =>
        /\ SetCells(thinned[1]) \subseteq SetCells(bm)
        /\ \A K \in Components(bm) : K \cap SetCells(thinned[1]) # {}

----------------------------------------------------------------------------
(* zhangSuenThinning followed sub-pass by sub-pass: thinned[1] is out, call *)
(* holds pass and changed, pc the position in the function                  *)

ThinStepInputs == SmallBitmaps \cup ThinInputs

\* let changed = true; const out = map.clone(): control is at the while test
InitThinSteps ==
    /\ bm \in ThinStepInputs
    /\ ExtractorIdle
    /\ tree = TreeCreate(DefaultCapacity)
    /\ pc = "while"
    /\ call = [op |-> "zhangSuenThinning", seq |-> 0, pass |-> 0,
               changed |-> TRUE]
    /\ thinned = <<bm>>
    /\ log = NoLog
    /\ twin = NoTwin
    /\ skel = NoSkel
    /\ failed = {}

\* while (changed) { changed = false; for (let pass = 0; ...
ThinWhile ==
    /\ pc = "while"
    /\ call.changed
    /\ pc' = "pass"
    /\ call' = [call EXCEPT !.pass = 0, !.changed = FALSE]
    /\ UNCHANGED <<bm, extractorVars, tree, thinned, log, twin, skel, failed>>

\* one turn of the for loop: the scan that fills toRemove, the removal of
\* its cells, pass++ and the loop test
ThinSubPass ==
    /\ pc = "pass"
    /\ call.pass < 3
    /\ \E rem \in {toRemove(thinned[1], call.pass)} :
         /\ thinned' = <<IF rem # {} THEN RemoveAll(thinned[1], rem, 0)
                         ELSE thinned[1]>>
         /\ call' = [call EXCEPT !.pass = @ + 1,
                                 !.changed = @ \/ rem # {},
                                 !.seq = @ + 1]
    /\ pc' = IF call.pass + 1 < 3 THEN "pass" ELSE "while"
    /\ UNCHANGED <<bm, extractorVars, tree, log, twin, skel, failed>>

\* the while test fails: return out
ThinReturn ==
    /\ pc = "while"
    /\ ~call.changed
    /\ pc' = "returned"
    /\ UNCHANGED <<bm, extractorVars, tree, call, thinned, log, twin, skel,
                   failed>>

NextThinSteps ==
    \/ ThinWhile
    \/ ThinSubPass
    \/ ThinReturn

SpecThinSteps == InitThinSteps /\ [][NextThinSteps]_vars

\* the neighbours N, NE, E, SE, S, SW, W, NW of the cell c among the set
\* cells S; a neighbour outside the bitmap is not in S
Compass(S, c) ==
    [i \in 1 .. 8 |->
       <<c[1] + <<0, 1, 1, 1, 0, -1, -1, -1>>[i],
         c[2] + <<-1, -1, 0, 1, 1, 1, 0, -1>>[i]>> \in S]

\* the removal condition of a sub-pass for the set cell c; first tells the
\* first sub-pass from the second
Removable(S, first, c) ==
    \E nb \in {Compass(S, c)} :
       /\ Cardinality({i \in 1 .. 8 : nb[i]}) \in 2 .. 6
       /\ Cardinality({i \in 1 .. 8 : ~nb[i] /\ nb[(i % 8) + 1]}) = 1
       /\ IF first
          THEN ~(nb[1] /\ nb[3] /\ nb[5]) /\ ~(nb[3] /\ nb[5] /\ nb[7])
          ELSE ~(nb[1] /\ nb[3] /\ nb[7]) /\ ~(nb[1] /\ nb[5] /\ nb[7])

\* C21: a sub-pass of thin() clears a set cell exactly when the cell has 2
\* to 6 set neighbours, one unset-to-set transition around it and the
\* sub-pass's corner conditions hold; this for every set cell, a cell on the
\* bitmap edge included, its missing neighbours counting as unset.
C21_SubPassRemoval ==
    [][pc = "pass" =>
         \A c \in SetCells(thinned[1]) :
            (c \notin SetCells(thinned'[1]))
               <=> Removable(SetCells(thinned[1]), call.pass = 0, c)]_vars


----------------------------------------------------------------------------
(* The Tree API with addChild on any two nodes of the tree *)

\* tree.addChild(p, c) for any nodes p and c
TAddAny ==
    /\ pc = "tree"
    /\ Len(log.adds) < MaxAdds
    /\ \E p \in 0 .. tree.size - 1, c \in 0 .. tree.size - 1 :
         \E ac \in {addChild(tree, p, c)} :
           /\ tree' = ac.tree
           /\ pc' = IF ac.returns THEN pc ELSE "hang"
           /\ call' = [op |-> "addChild", args |-> <<p, c>>,
                       ret |-> IF ac.returns THEN Undefined ELSE Hang,
                       pre |-> tree, seq |-> call.seq + 1]
           /\ log' = [log EXCEPT !.adds = Append(@, <<p, c>>)]
    /\ UNCHANGED <<bm, extractorVars, thinned, twin, skel, failed>>

NextForest ==
    \/ TNew
    \/ TAddAny

SpecForest == InitTree /\ [][NextForest]_vars

\* C24: on a forest built by new() and addChild() calls on nodes of the tree,
\* the iteration of children(id) ends for every node id, and a second
\* iteration yields the same sequence as the first.
C24_ChildrenTerminates ==
    pc = "tree" =>
      \A id \in Nodes :
        \E first \in {children(tree, id)}, second \in {children(tree, id)} :
           first.ends /\ second.ends /\ second.seq = first.seq


----------------------------------------------------------------------------

\* the point lists of the contours traced so far in None mode
NonePointLists ==
    {TreeGet(NoneTree, n).points : n \in 0 .. NoneTree.size - 1}

----------------------------------------------------------------------------
(* The Tree API with CREAGEN_ASSERTS on: one call on a tree built by new() *)
(* and addChild(), its id arguments inside and outside 0 .. size - 1        *)

\* the call threw an Error
Threw == -6

\* if (id < 0 || id >= this.size) throw Error(`Invalid idx given ${id}`);
\* both comparisons are false on undefined
InvalidIdx(t, id) == id # Undefined /\ (id < 0 \/ id >= t.size)

\* getPrevSibling's walk from current to the node before target
RECURSIVE PrevFrom(_, _, _, _, _)
PrevFrom(t, current, previous, target, fuel) ==
    IF current = Null \/ current = target THEN previous
    ELSE IF fuel = 0 THEN Hang
    ELSE Strict(getNextSibling(t, current), LAMBDA next :
           PrevFrom(t, next, current, target, fuel - 1))

\* the call op(a) or op(a, b) with CREAGEN_ASSERTS on: the tree after it
\* and what it returns, Threw when it throws. The links a walk follows were
\* stored by addChild and are handles of the tree (or undefined), so the
\* check of the getters inside a walk never throws.
AssertCall(t, op, a, b) ==
    LET threw == [tree |-> t, ret |-> Threw]
        reads(v) == IF InvalidIdx(t, a) THEN threw
                    ELSE [tree |-> t, ret |-> v]
        stores(t1) == IF InvalidIdx(t, a) THEN threw
                      ELSE [tree |-> t1, ret |-> Undefined]
    IN  CASE op = "get" -> reads(TreeGet(t, a))
          [] op = "getParent" -> reads(getParent(t, a))
          [] op = "setParent" -> stores(setParent(t, a, b))
          [] op = "getFirstChild" -> reads(getFirstChild(t, a))
          [] op = "setFirstChild" -> stores(setFirstChild(t, a, b))
          [] op = "getNextSibling" -> reads(getNextSibling(t, a))
          [] op = "setNextSibling" -> stores(setNextSibling(t, a, b))
          [] op = "getPrevSibling" ->
               IF InvalidIdx(t, a) THEN threw
               ELSE IF getParent(t, a) = Null THEN [tree |-> t, ret |-> Null]
               ELSE IF InvalidIdx(t, getParent(t, a)) THEN threw
               ELSE [tree |-> t,
                     ret |-> PrevFrom(t, getFirstChild(t, getParent(t, a)),
                                      Null, a, t.size + 1)]
          [] op = "addChild" ->
               \* addChild(parentId = a, childId = b)
               IF InvalidIdx(t, b) THEN threw
               ELSE IF InvalidIdx(t, a)
               THEN [tree |-> setParent(t, b, a), ret |-> Threw]
               ELSE Strict(addChild(t, a, b), LAMBDA ac :
                      [tree |-> ac.tree,
                       ret |-> IF ac.returns THEN Undefined ELSE Hang])
          [] op = "children" ->
               IF InvalidIdx(t, a) THEN threw
               ELSE Strict(children(t, a), LAMBDA ch :
                      [tree |-> t, ret |-> IF ch.ends THEN ch.seq ELSE Hang])

\* the operations with one id argument, and those with two
OneIdOps == {"get", "getParent", "getFirstChild", "getNextSibling",
             "getPrevSibling", "children"}
TwoIdOps == {"setParent", "setFirstChild", "setNextSibling", "addChild"}

\* one call, and the last of the behaviour
TChecked ==
    /\ pc = "tree"
    /\ \E op \in OneIdOps \cup TwoIdOps :
       \E a \in -1 .. tree.size :
       \E b \in IF op \in TwoIdOps THEN 0 .. tree.size ELSE {0} :
       \E r \in {AssertCall(tree, op, a, b)} :
          /\ tree' = r.tree
          /\ call' = [op |-> op,
                      args |-> IF op \in TwoIdOps THEN <<a, b>> ELSE <<a>>,
                      ret |-> r.ret, pre |-> tree, seq |-> call.seq + 1]
    /\ pc' = "checked"
    /\ UNCHANGED <<bm, extractorVars, thinned, log, twin, skel, failed>>

NextTreeChecked ==
    \/ TNew
    \/ TAddChild
    \/ TChecked

SpecTreeChecked == InitTree /\ [][NextTreeChecked]_vars

\* C26: with the assertions on, a Tree operation given an id outside
\* 0 .. size - 1 in any of its id arguments throws, and has stored nothing.
C26_InvalidIdThrows ==
    (pc = "checked"
       /\ \E k \in 1 .. Len(call.args) :
            call.args[k] < 0 \/ call.args[k] >= call.pre.size) =>
      /\ call.ret = Threw
      /\ tree = call.pre


----------------------------------------------------------------------------

\* extractContours as the sequential program it is: a step that can be taken
\* is taken in the end. The bitmaps are the small ones and the framed ones.
InitLive ==
    /\ \E b \in SmallBitmaps \cup FramedBitmaps : bm = b
    /\ opts = ApproxNone
    /\ image = <<>>
    /\ width = 0
    /\ height = 0
    /\ lnbd = <<0, 1>>
    /\ nbd = 2
    /\ ctable = <<>>
    /\ tree = TreeCreate(DefaultCapacity)
    /\ x = 0
    /\ y = 0
    /\ prev = 0
    /\ pc = "new"
    /\ call = NoCall
    /\ thinned = <<>>
    /\ log = NoLog
    /\ twin = NoTwin
    /\ skel = NoSkel
    /\ failed = {}

SpecLive == InitLive /\ [][Next]_vars /\ WF_vars(Next)

\* hitsContourTrace returns when it walks the border of any contour traced
\* so far towards any place lnbd can be at in the row being scanned (its
\* first cell, or a cell that carries flags)
LookupsReturn ==
    pc = "cell" =>
      \A n \in Nodes :
        \A lx \in {0} \cup {cx \in 1 .. width - 2 :
                              BitAnd(ToInt32(ImgAt(image, y * width + cx)),
                                     MASK8_FLAGS) # 0} :
           ~hitsContourTrace(image, width, Node(n).origin, <<lx, y>>,
                             Node(n).isHole).hangs

\* C28: extractContours ends on every bitmap: no border trace, parent lookup
\* or addChild runs for ever, nothing throws, and the scan gets past the
\* last row and returns the tree.
C28_ExtractTerminates ==
    /\ [](pc \notin {"hang", "threw"} /\ LookupsReturn)
    /\ <>(pc = "done")

\* a finished scan that traced a border of several points inside a hole
\* border, each with a parent found by a lookup
C28_Witness ==
    /\ pc = "done"
    /\ \E n \in Nodes, m \in Nodes :
         /\ Node(n).isHole
         /\ getParent(tree, n) # Null
         /\ getParent(tree, m) = n
         /\ Len(TreeGet(NoneTree, m).points) > 1

----------------------------------------------------------------------------

\* p and q are different cells that touch by a side or by a corner
Neighbours8(p, q) ==
    /\ p # q
    /\ p[1] - q[1] \in -1 .. 1
    /\ p[2] - q[2] \in -1 .. 1

\* C29: in None mode every point of every contour is a set cell of the
\* source bitmap, and in a contour of more than one point every point and
\* the one after it, the first coming after the last, are distinct
\* 8-neighbours.
C29_ClosedWalkOverForeground ==
    pc \in {"row", "cell", "done"} =>
      \A pts \in NonePointLists :
         /\ \A k \in 1 .. Len(pts) :
              /\ pts[k][1] \in 0 .. bm.width - 1
              /\ pts[k][2] \in 0 .. bm.height - 1
              /\ get(bm, pts[k][1], pts[k][2]) = 1
         /\ Len(pts) > 1 =>
              \A k \in 1 .. Len(pts) :
                 Neighbours8(pts[k], pts[(k % Len(pts)) + 1])

\* an outer contour and a hole contour of several points each, one of them
\* passing a cell twice
C29_Witness ==
    /\ pc = "done"
    /\ \E n \in 0 .. NoneTree.size - 1 :
         /\ ~TreeGet(NoneTree, n).isHole
         /\ Len(TreeGet(NoneTree, n).points) > 1
    /\ \E n \in 0 .. NoneTree.size - 1 :
         /\ TreeGet(NoneTree, n).isHole
         /\ Len(TreeGet(NoneTree, n).points) > 1
    /\ \E pts \in NonePointLists :
         \E j \in 1 .. Len(pts), k \in 1 .. Len(pts) :
            j # k /\ pts[j] = pts[k]

----------------------------------------------------------------------------

\* how many times handle n is yielded by children(m)
TimesUnder(m, n) ==
    Cardinality({k \in 1 .. Len(children(tree, m).seq) :
                   children(tree, m).seq[k] = n})

\* C30: at every point of the scan the tree is a forest: the parent of a
\* node that has one is a smaller handle; a node that is not a root is
\* yielded exactly once by children() of its parent and by children() of no
\* other node; and children() of any node ends and yields strictly
\* increasing handles.
C30_WellFormedForest ==
    pc \in {"row", "cell", "done"} =>
      /\ \A n \in Nodes :
           getParent(tree, n) # Null =>
             /\ getParent(tree, n) \in Nodes
             /\ getParent(tree, n) < n
             /\ \A m \in Nodes :
                  TimesUnder(m, n) = IF m = getParent(tree, n) THEN 1 ELSE 0
      /\ \A m \in Nodes :
           /\ children(tree, m).ends
           /\ \A k \in 1 .. Len(children(tree, m).seq) - 1 :
                children(tree, m).seq[k] < children(tree, m).seq[k + 1]

\* a finished scan whose tree has a node with two children or more and a
\* node whose parent has a parent
C30_Witness ==
    /\ pc = "done"
    /\ \E m \in Nodes : Len(children(tree, m).seq) >= 2
    /\ \E n \in Nodes :
         /\ getParent(tree, n) # Null
         /\ getParent(tree, getParent(tree, n)) # Null


====
